---- MODULE Spec2Model ----
(***************************************************************************)
(* cargo-patch-source: the patch state manager.                            *)
(*                                                                         *)
(* The state is the target manifest on disk.  One action per command:      *)
(* Apply (apply_patches) and Remove (remove_patches); each reads the       *)
(* manifest, works on an in-memory document and writes it back at most     *)
(* once.  The toml_ops / cargo_ops helpers are operators on documents;     *)
(* `call` holds one call of a helper with its arguments and its result.    *)
(*                                                                         *)
(* Strings that the code takes apart (crate names, patterns, regexes) are  *)
(* sequences of one-character strings; strings it only compares or copies  *)
(* (versions, URLs, paths, table keys) are TLA+ strings.                   *)
(***************************************************************************)
EXTENDS Integers, Sequences, FiniteSets, TLC

VARIABLES disk, before, last, prev, written, pristine, call

vars == <<disk, before, last, prev, written, pristine, call>>

----------------------------------------------------------------------------
(* Tables: a TOML table is a function from its keys to its items.          *)

EmptyTable == <<>>

Put(t, k, v) == [x \in (DOMAIN t) \cup {k} |-> IF x = k THEN v ELSE t[x]]

Del(t, k) == [x \in (DOMAIN t) \ {k} |-> t[x]]

DelAll(t, ks) == [x \in (DOMAIN t) \ ks |-> t[x]]

Range(s) == {s[i] : i \in DOMAIN s}

(* Option<String>::None for a declaration's `version` and `git` fields.    *)
NoVersion == "<none>"

NoUrl == "<none>"

(* An absent optional table, and an absent namespace table.                *)
Absent == [has |-> FALSE, tbl |-> EmptyTable]

Present(t) == [has |-> TRUE, tbl |-> t]

NoNamespace ==
    [has |-> FALSE, ovHas |-> FALSE, ov |-> <<>>, mpHas |-> FALSE, mp |-> <<>>]

NoMetadata == [has |-> FALSE, other |-> FALSE, ns |-> NoNamespace]

(* The default patch key, [patch.crates-io].                                *)
CratesIo == "crates-io"

----------------------------------------------------------------------------
(* toml_ops.rs: accessors                                                  *)

is_workspace(doc) == doc.workspace

(* Mutation: the top-level table is looked at first.                       *)
TopLevelFirst(doc) ==
    IF doc.deps.has THEN "top"
    ELSE IF doc.workspace /\ doc.wsDeps.has THEN "ws"
    ELSE "none"

(* Which table get_dependencies_table{,_mut} selects: "ws", "top", "none". *)
get_dependencies_table_mut(doc) ==
    IF doc.workspace /\ doc.wsDeps.has THEN "ws"
    ELSE IF doc.deps.has THEN "top"
    ELSE "none"

get_dependencies_table(doc) ==
    IF doc.workspace /\ doc.wsDeps.has THEN doc.wsDeps
    ELSE IF doc.deps.has THEN doc.deps
    ELSE Absent

get_dependency_git_url(dep) ==
    IF dep.shape \in {"Inline", "Table"} THEN dep.git ELSE NoUrl

get_dependency_version(dep) == dep.version

(* Number of names in the list crate_names whose declaration has git = u.  *)
GitUrlCount(tbl, crate_names, u) ==
    Cardinality({i \in DOMAIN crate_names :
        /\ crate_names[i] \in DOMAIN tbl
        /\ get_dependency_git_url(tbl[crate_names[i]]) = u})

(* The URLs counted by detect_common_git_url.                              *)
CountedUrls(tbl, crate_names) ==
    {get_dependency_git_url(tbl[crate_names[i]]) :
        i \in {j \in DOMAIN crate_names : crate_names[j] \in DOMAIN tbl}}
    \ {NoUrl}

(* Mutation: the most frequent URL is returned without the majority rule.  *)
PluralityAmong(tbl, crate_names, urls) ==
    {m \in urls : \A w \in urls :
        GitUrlCount(tbl, crate_names, w) <= GitUrlCount(tbl, crate_names, m)}

(* max_by_key over the counts, then the majority filter.  max_by_key       *)
(* returns some URL of maximal count (which one depends on the HashMap's   *)
(* order when several tie); the result is the set of values it can return. *)
MajorityAmong(tbl, crate_names, urls) ==
    {IF GitUrlCount(tbl, crate_names, u) > Len(crate_names) \div 2 THEN u ELSE NoUrl :
        u \in {m \in urls : \A w \in urls :
                  GitUrlCount(tbl, crate_names, w) <= GitUrlCount(tbl, crate_names, m)}}

DetectIn(deps, crate_names, urls) ==
    IF ~deps.has \/ urls = {} THEN {NoUrl}
    ELSE MajorityAmong(deps.tbl, crate_names, urls)

DetectFrom(deps, crate_names) ==
    DetectIn(deps, crate_names, CountedUrls(deps.tbl, crate_names))

DetectResults(doc, crate_names) == DetectFrom(get_dependencies_table(doc), crate_names)

detect_common_git_url(doc, crate_names) ==
    CHOOSE u \in DetectResults(doc, crate_names) : TRUE

(* Mutation: the entry is replaced by a version string whatever its shape. *)
ReplaceEntry(dep, new_version) ==
    [shape |-> "Plain", version |-> new_version, git |-> NoUrl]

(* Mutation: the version is set whether or not the declaration had one.    *)
AddVersion(dep, new_version) == [dep EXCEPT !.version = new_version]

(* The declaration with its version replaced, as update_dependency_version *)
(* does per shape.                                                         *)
WithVersion(dep, new_version) ==
    IF dep.shape = "Plain" THEN [dep EXCEPT !.version = new_version]
    ELSE IF dep.version # NoVersion THEN [dep EXCEPT !.version = new_version]
    ELSE dep

UpdateIn(doc, which, crate_name, new_version) ==
    IF which = "ws" /\ crate_name \in DOMAIN doc.wsDeps.tbl
    THEN [doc EXCEPT !.wsDeps.tbl[crate_name] = WithVersion(@, new_version)]
    ELSE IF which = "top" /\ crate_name \in DOMAIN doc.deps.tbl
    THEN [doc EXCEPT !.deps.tbl[crate_name] = WithVersion(@, new_version)]
    ELSE doc

update_dependency_version(doc, crate_name, new_version) ==
    UpdateIn(doc, get_dependencies_table_mut(doc), crate_name, new_version)

----------------------------------------------------------------------------
(* Strings as character sequences: byte order of the characters used.      *)

Byte(ch) ==
    CASE ch = "(" -> 40 [] ch = ")" -> 41 [] ch = "*" -> 42 [] ch = "+" -> 43
      [] ch = "-" -> 45 [] ch = "." -> 46 [] ch = "?" -> 63 [] ch = "[" -> 91
      [] ch = "\\" -> 92 [] ch = "]" -> 93 [] ch = "^" -> 94 [] ch = "_" -> 95
      [] ch = "a" -> 97 [] ch = "b" -> 98 [] ch = "c" -> 99 [] ch = "d" -> 100
      [] ch = "x" -> 120 [] ch = "|" -> 124 [] ch = "$" -> 36

(* String::cmp: lexicographic by bytes, a proper prefix first.             *)
StrLess(s, t) ==
    \E i \in 1..(Len(s) + 1) :
        /\ \A j \in 1..(i - 1) : j <= Len(t) /\ s[j] = t[j]
        /\ \/ i = Len(s) + 1 /\ i <= Len(t)
           \/ i <= Len(s) /\ i <= Len(t) /\ Byte(s[i]) < Byte(t[i])

(* HashMap::iter(): the entries in an order the map chooses.               *)
HashIter(map) ==
    CHOOSE seq \in [1..Cardinality(DOMAIN map) -> DOMAIN map] :
        Range(seq) = DOMAIN map

(* sort_by_key(|(name, _)| name): stable insertion of each name in turn.   *)
InsertAt(sorted, name, k) ==
    SubSeq(sorted, 1, k) \o <<name>> \o SubSeq(sorted, k + 1, Len(sorted))

(* Mutation: the names stay in the order of iteration.                     *)
InsertLast(sorted, name) == Append(sorted, name)

InsertSorted(sorted, name) ==
    InsertAt(sorted, name,
             Cardinality({i \in DOMAIN sorted : ~StrLess(name, sorted[i])}))

RECURSIVE SortNames(_)
SortNames(names) ==
    IF names = <<>> THEN <<>>
    ELSE InsertSorted(SortNames(SubSeq(names, 1, Len(names) - 1)),
                      names[Len(names)])

----------------------------------------------------------------------------
(* toml_ops.rs: the metadata store                                         *)

(* get_or_create_metadata_table: "ws" or "pkg", creating the path to the   *)
(* namespace table.                                                        *)
(* Mutation: the state always goes under the package metadata.             *)
AlwaysPackage(doc) == "pkg"

MetadataSide(doc) == IF doc.workspace THEN "ws" ELSE "pkg"

get_or_create_metadata_table(doc) ==
    IF MetadataSide(doc) = "ws"
    THEN [doc EXCEPT !.wsMeta.has = TRUE, !.wsMeta.ns.has = TRUE]
    ELSE [doc EXCEPT !.package = TRUE,
                     !.pkgMeta.has = TRUE, !.pkgMeta.ns.has = TRUE]

(* get_metadata_table: the namespace table read, workspace first.          *)
get_metadata_table(doc) ==
    IF doc.workspace /\ doc.wsMeta.has /\ doc.wsMeta.ns.has THEN doc.wsMeta.ns
    ELSE IF doc.package /\ doc.pkgMeta.has /\ doc.pkgMeta.ns.has
    THEN doc.pkgMeta.ns
    ELSE NoNamespace

(* Mutation: a crate without a version is not written.                    *)
PairsWithVersion(sorted, versions) ==
    [i \in DOMAIN SelectSeq(sorted, LAMBDA n : versions[n] # "") |->
        <<SelectSeq(sorted, LAMBDA n : versions[n] # "")[i],
          versions[SelectSeq(sorted, LAMBDA n : versions[n] # "")[i]]>>]

(* The inline table written: one <<name, version>> per crate, sorted.      *)
PairsOf(sorted, versions) ==
    [i \in DOMAIN sorted |-> <<sorted[i], versions[sorted[i]]>>]

(* Lines 247-252, for the order in which the map hands out its entries.    *)
SerializeFrom(order, versions) == PairsOf(SortNames(order), versions)

SerializeVersions(versions) == SerializeFrom(HashIter(versions), versions)

(* Mutation: the versions are not stored.                                  *)
StoreNothing(doc, versions) == doc

InsertVersions(d, side, ov) ==
    IF side = "ws"
    THEN [d EXCEPT !.wsMeta.ns.ovHas = TRUE, !.wsMeta.ns.ov = ov]
    ELSE [d EXCEPT !.pkgMeta.ns.ovHas = TRUE, !.pkgMeta.ns.ov = ov]

store_original_versions(doc, versions) ==
    InsertVersions(get_or_create_metadata_table(doc), MetadataSide(doc),
                   SerializeVersions(versions))

(* Mutation: the versions are read only when both records are there.      *)
NeedsBoth(ns) ==
    IF ~ns.has \/ ~ns.ovHas \/ ~ns.mpHas THEN EmptyTable
    ELSE [n \in {ns.ov[i][1] : i \in DOMAIN ns.ov} |->
             (CHOOSE p \in Range(ns.ov) : p[1] = n)[2]]

(* get_original_versions: the HashMap read back (empty when absent).       *)
VersionsIn(ns) ==
    IF ~ns.has \/ ~ns.ovHas THEN EmptyTable
    ELSE [n \in {ns.ov[i][1] : i \in DOMAIN ns.ov} |->
             (CHOOSE p \in Range(ns.ov) : p[1] = n)[2]]

get_original_versions(doc) == VersionsIn(get_metadata_table(doc))

(* Mutation: the key is pushed whether or not it is there.                 *)
PushAlways(array, patch_key) == Append(array, patch_key)

(* The array after add_managed_patch: push unless already present.         *)
PushUnique(array, patch_key) ==
    IF patch_key \in Range(array) THEN array ELSE Append(array, patch_key)

PushManaged(d, side, patch_key) ==
    IF side = "ws"
    THEN [d EXCEPT !.wsMeta.ns.mpHas = TRUE,
                   !.wsMeta.ns.mp = PushUnique(@, patch_key)]
    ELSE [d EXCEPT !.pkgMeta.ns.mpHas = TRUE,
                   !.pkgMeta.ns.mp = PushUnique(@, patch_key)]

add_managed_patch(doc, patch_key) ==
    PushManaged(get_or_create_metadata_table(doc), MetadataSide(doc), patch_key)

ManagedIn(ns) == IF ~ns.has \/ ~ns.mpHas THEN <<>> ELSE ns.mp

get_managed_patches(doc) == ManagedIn(get_metadata_table(doc))

(* One side of clear_metadata: drop the namespace key, then the metadata   *)
(* table if that left it empty.                                            *)
ClearSide(meta) ==
    IF ~meta.has THEN meta
    ELSE IF meta.other THEN [meta EXCEPT !.ns = NoNamespace]
    ELSE NoMetadata

(* Mutation: the metadata is left in place.                                *)
KeepMetadata(doc) == doc

ClearPackage(doc) ==
    IF doc.package THEN [doc EXCEPT !.pkgMeta = ClearSide(@)] ELSE doc

clear_metadata(doc) ==
    ClearPackage(IF doc.workspace THEN [doc EXCEPT !.wsMeta = ClearSide(@)] ELSE doc)

(* The origin table after the recorded crates are removed from it.         *)
(* Mutation: the whole origin table is emptied.                            *)
StripAll(source_table, patched_crates) == EmptyTable

StripCrates(source_table, patched_crates) == DelAll(source_table, patched_crates)

(* Mutation: an emptied origin table is left in the patch table.           *)
PutAlways(patch_tbl, patch_key, source_table) == Put(patch_tbl, patch_key, source_table)

(* The patch table after one managed key is processed (lines 386-399).     *)
PutOrDrop(patch_tbl, patch_key, source_table) ==
    IF source_table = EmptyTable THEN Del(patch_tbl, patch_key)
    ELSE Put(patch_tbl, patch_key, source_table)

StripKey(patch_tbl, patch_key, patched_crates) ==
    IF patch_key \notin DOMAIN patch_tbl THEN patch_tbl
    ELSE PutOrDrop(patch_tbl, patch_key,
                   StripCrates(patch_tbl[patch_key], patched_crates))

RECURSIVE StripKeys(_, _, _)
StripKeys(patch_tbl, managed_patches, patched_crates) ==
    IF managed_patches = <<>> THEN patch_tbl
    ELSE StripKeys(StripKey(patch_tbl, Head(managed_patches), patched_crates),
                   Tail(managed_patches), patched_crates)

(* The `patch` item after the strip: removed when no sub-table is left.    *)
PrunePatch(patch_tbl) ==
    IF patch_tbl = EmptyTable THEN Absent ELSE Present(patch_tbl)

(* remove_managed_patches: [doc, res] with res "Ok" (Ok(true)) or the      *)
(* error; the document is changed only on "Ok".                            *)
(* Mutation: no check that there is managed state or a patch table.        *)
RemoveUnchecked(doc, managed_patches, patched_crates) ==
    [doc |-> clear_metadata(
                [doc EXCEPT !.patch =
                    PrunePatch(StripKeys(doc.patch.tbl, managed_patches,
                                         patched_crates))]),
     res |-> "Ok", removed |-> TRUE]

RemoveManaged(doc, managed_patches, patched_crates) ==
    IF managed_patches = <<>>
    THEN [doc |-> doc, res |-> "NoPatchesFound", removed |-> FALSE]
    ELSE IF ~doc.patch.has
    THEN [doc |-> doc, res |-> "NoPatchesFound", removed |-> FALSE]
    ELSE [doc |-> clear_metadata(
                    [doc EXCEPT !.patch =
                        PrunePatch(StripKeys(doc.patch.tbl, managed_patches,
                                             patched_crates))]),
          res |-> "Ok", removed |-> TRUE]

remove_managed_patches(doc) ==
    RemoveManaged(doc, get_managed_patches(doc), DOMAIN get_original_versions(doc))

----------------------------------------------------------------------------
(* cargo_ops.rs: the workspace query and the pattern filter                *)

(* The source workspaces `cargo metadata` is asked about: whether the root *)
(* holds a Cargo.toml, whether the query succeeds, and the members.        *)
CrateInfo(name, version, dir) == [name |-> name, version |-> version, dir |-> dir]

Workspaces ==
    [root \in {"W1", "W2", "WEmpty", "WMissing", "WBroken"} |->
        CASE root = "W1" ->
               [manifest |-> TRUE, metadata |-> TRUE,
                members |-> << CrateInfo(<<"a">>, "2.0", "/w1/a"),
                               CrateInfo(<<"a", "-", "b">>, "2.1", "/w1/a-b") >>]
          [] root = "W2" ->
               [manifest |-> TRUE, metadata |-> TRUE,
                members |-> << CrateInfo(<<"c">>, "3.0", "/w2/c"),
                               CrateInfo(<<"a">>, "3.1", "/w2/a") >>]
          [] root = "WEmpty" ->
               [manifest |-> TRUE, metadata |-> TRUE, members |-> <<>>]
          [] root = "WMissing" ->
               [manifest |-> FALSE, metadata |-> FALSE, members |-> <<>>]
          [] root = "WBroken" ->
               [manifest |-> TRUE, metadata |-> FALSE, members |-> <<>>]]

query_workspace_crates(root) ==
    LET ws == Workspaces[root]
    IN  IF ~ws.manifest THEN [res |-> "SourceNotFound", crates |-> <<>>]
        ELSE IF ~ws.metadata THEN [res |-> "CargoMetadataError", crates |-> <<>>]
        ELSE IF ws.members = <<>> THEN [res |-> "NotAWorkspace", crates |-> <<>>]
        ELSE [res |-> "Ok", crates |-> ws.members]

(* str::replace of one character by a string.                              *)
RECURSIVE Replace(_, _, _)
Replace(s, ch, with) ==
    IF s = <<>> THEN <<>>
    ELSE (IF Head(s) = ch THEN with ELSE <<Head(s)>>) \o Replace(Tail(s), ch, with)

(* The regex text filter_crates_by_pattern builds from a glob pattern.     *)
GlobToRegexText(pattern) ==
    <<"^">> \o Replace(Replace(Replace(pattern, ".", <<"\\", ".">>),
                               "*", <<".", "*">>),
                       "?", <<".">>)
            \o <<"$">>

(* Regex::new on the part of the syntax these texts use: literals, \x, `.`,*)
(* [..] classes, ^ and $, the * repetition and the | alternation.  An item *)
(* is an atom with its repetition, or the separator "alt" between two      *)
(* alternatives; ok = FALSE is a syntax error (unclosed class, dangling    *)
(* backslash, repetition of nothing).                                      *)
Item(kind, chars, rep) == [kind |-> kind, chars |-> chars, rep |-> rep]

ClassEnd(re, i) ==
    LET js == {j \in (i + 1)..Len(re) : re[j] = "]"}
    IN  IF js = {} THEN 0 ELSE CHOOSE j \in js : \A k \in js : j <= k

NoAtom(i) == [ok |-> FALSE, it |-> Item("lit", {}, "one"), next |-> i + 1]

ClassAtom(re, i, close) ==
    IF close = 0 THEN NoAtom(i)
    ELSE [ok |-> TRUE, it |-> Item("lit", {re[j] : j \in (i + 1)..(close - 1)}, "one"),
          next |-> close + 1]

ParseAtom(re, i, ch) ==
    CASE ch = "^" -> [ok |-> TRUE, it |-> Item("start", {}, "one"), next |-> i + 1]
      [] ch = "$" -> [ok |-> TRUE, it |-> Item("end", {}, "one"), next |-> i + 1]
      [] ch = "." -> [ok |-> TRUE, it |-> Item("any", {}, "one"), next |-> i + 1]
      [] ch = "\\" ->
           IF i + 1 <= Len(re)
           THEN [ok |-> TRUE, it |-> Item("lit", {re[i + 1]}, "one"), next |-> i + 2]
           ELSE NoAtom(i)
      [] ch = "[" -> ClassAtom(re, i, ClassEnd(re, i))
      [] ch = "*" -> NoAtom(i)
      [] ch = "|" -> [ok |-> TRUE, it |-> Item("alt", {}, "one"), next |-> i + 1]
      [] OTHER -> [ok |-> TRUE, it |-> Item("lit", {ch}, "one"), next |-> i + 1]

ConsItem(it, rest) ==
    IF ~rest.ok THEN [ok |-> FALSE, items |-> <<>>]
    ELSE [ok |-> TRUE, items |-> <<it>> \o rest.items]

RECURSIVE RegexParse(_, _)
ParseFrom(re, atom) ==
    IF ~atom.ok THEN [ok |-> FALSE, items |-> <<>>]
    ELSE IF atom.next <= Len(re) /\ re[atom.next] = "*" /\ atom.it.kind = "alt"
    THEN [ok |-> FALSE, items |-> <<>>]
    ELSE IF atom.next <= Len(re) /\ re[atom.next] = "*"
    THEN ConsItem([atom.it EXCEPT !.rep = "star"], RegexParse(re, atom.next + 1))
    ELSE ConsItem(atom.it, RegexParse(re, atom.next))

RegexParse(re, i) ==
    IF i > Len(re) THEN [ok |-> TRUE, items |-> <<>>]
    ELSE ParseFrom(re, ParseAtom(re, i, re[i]))

(* Whether the item's atom accepts the text at position j, and how many    *)
(* characters it takes.                                                    *)
AtomAccepts(it, s, j) ==
    CASE it.kind = "start" -> j = 1
      [] it.kind = "end" -> j = Len(s) + 1
      [] it.kind = "any" -> j <= Len(s)
      [] OTHER -> j <= Len(s) /\ s[j] \in it.chars

AtomWidth(it) == IF it.kind \in {"start", "end"} THEN 0 ELSE 1

RECURSIVE MatchFrom(_, _, _, _)
MatchFrom(items, i, s, j) ==
    IF i > Len(items) THEN TRUE
    ELSE IF items[i].rep = "one"
    THEN AtomAccepts(items[i], s, j)
         /\ MatchFrom(items, i + 1, s, j + AtomWidth(items[i]))
    ELSE \/ MatchFrom(items, i + 1, s, j)
         \/ /\ AtomWidth(items[i]) = 1
            /\ AtomAccepts(items[i], s, j)
            /\ MatchFrom(items, i, s, j + 1)

(* The alternatives of a regex: its items split at the "alt" separators.   *)
FirstAlt(items) ==
    CHOOSE k \in DOMAIN items :
        items[k].kind = "alt" /\ \A j \in 1..(k - 1) : items[j].kind # "alt"

RECURSIVE Alternatives(_)
SplitAt(items, k) ==
    <<SubSeq(items, 1, k - 1)>> \o Alternatives(SubSeq(items, k + 1, Len(items)))

Alternatives(items) ==
    IF \A k \in DOMAIN items : items[k].kind # "alt" THEN <<items>>
    ELSE SplitAt(items, FirstAlt(items))

(* Regex::is_match: a match of one alternative starting anywhere in the    *)
(* text.                                                                   *)
is_match(items, s) ==
    \E branch \in Range(Alternatives(items)), j \in 1..(Len(s) + 1) :
        MatchFrom(branch, 1, s, j)

(* Option<&str>: a pattern is either absent or a string.                   *)
NoPattern == [some |-> FALSE, s |-> <<>>]

Pattern(s) == [some |-> TRUE, s |-> s]

NonEmpty(filtered) ==
    IF filtered = <<>> THEN [res |-> "NoMatchingCrates", crates |-> <<>>]
    ELSE [res |-> "Ok", crates |-> filtered]

FilterWith(crates, re) ==
    IF ~re.ok THEN [res |-> "InvalidPattern", crates |-> <<>>]
    ELSE NonEmpty(SelectSeq(crates, LAMBDA c : is_match(re.items, c.name)))

(* InvalidPattern and NoMatchingCrates carry the pattern as it was given   *)
(* (lines 85-88 and 96-100).                                               *)
OfPattern(result, pattern) ==
    [res |-> result.res, crates |-> result.crates,
     pattern |-> IF result.res = "Ok" THEN NoPattern ELSE pattern]

filter_crates_by_pattern(crates, pattern) ==
    IF ~pattern.some THEN [res |-> "Ok", crates |-> crates, pattern |-> NoPattern]
    ELSE OfPattern(FilterWith(crates, RegexParse(GlobToRegexText(pattern.s), 1)),
                   pattern)

(* glob_pattern_regex: `*` is any run of characters, `?` any one           *)
(* character, every other character itself, anchored at both ends.         *)
GlobItem(ch) ==
    CASE ch = "*" -> Item("any", {}, "star")
      [] ch = "?" -> Item("any", {}, "one")
      [] OTHER -> Item("lit", {ch}, "one")

glob_pattern_regex(pattern) ==
    [ok |-> TRUE,
     items |-> <<Item("start", {}, "one")>>
               \o [i \in DOMAIN pattern |-> GlobItem(pattern[i])]
               \o <<Item("end", {}, "one")>>]

----------------------------------------------------------------------------
(* patch.rs                                                                *)

(* Option<String>::None in a patch entry.                                  *)
NoField == "<none>"

(* The inline table written for a crate: { path = dir } or                 *)
(* { git = url [, branch | tag | rev = name] }.                            *)
PathEntry(dir) ==
    [path |-> dir, git |-> NoField, refKind |-> NoField, ref |-> NoField]

GitEntry(url, reference) ==
    [path |-> NoField, git |-> url, refKind |-> reference.kind, ref |-> reference.name]

NoReference == [kind |-> NoField, name |-> NoField]

(* PatchSource                                                             *)
LocalPath(root) == [kind |-> "local", root |-> root, url |-> NoField, reference |-> NoReference]

Git(url, reference) == [kind |-> "git", root |-> NoField, url |-> url, reference |-> reference]

(* Names of a list of CrateInfo.                                           *)
Names(crates) == [i \in DOMAIN crates |-> crates[i].name]

(* Mutation: no version is restored.                                       *)
NoRestore(doc, names, versions) == doc

(* The restoration loop: update_dependency_version for every recorded      *)
(* crate whose recorded version is not empty.                              *)
RECURSIVE RestoreVersions(_, _, _)
RestoreVersions(doc, names, versions) ==
    IF names = <<>> THEN doc
    ELSE RestoreVersions(
            IF versions[Head(names)] # ""
            THEN update_dependency_version(doc, Head(names), versions[Head(names)])
            ELSE doc,
            Tail(names), versions)

(* apply_patches, lines 39-63: restore and strip what an earlier run       *)
(* recorded; a NoPatchesFound from the strip is ignored.                   *)
RestoreAndStrip(doc, previous_versions) ==
    remove_managed_patches(
        RestoreVersions(doc, HashIter(previous_versions), previous_versions)).doc

(* Mutation: the state of the earlier run is left in place.               *)
KeepEarlier(doc) == doc

SelfClean(doc) ==
    IF get_managed_patches(doc) = <<>> THEN doc
    ELSE RestoreAndStrip(doc, get_original_versions(doc))

(* apply_patches, lines 65-100: every declared dependency with its version *)
(* ("" when it has none).                                                  *)
VersionOrEmpty(deps) ==
    [n \in DOMAIN deps |-> IF deps[n].version = NoVersion THEN "" ELSE deps[n].version]

CurrentDeps(doc) == VersionOrEmpty(get_dependencies_table(doc).tbl)

(* Mutation: existing patch entries are not looked at.                     *)
NoExisting(doc) == {}

collect_existing_patched_crates(doc) ==
    IF ~doc.patch.has THEN {}
    ELSE UNION {DOMAIN doc.patch.tbl[k] : k \in DOMAIN doc.patch.tbl}

(* Lines 188-194 / the version update loop over the managed crates.        *)
RECURSIVE UpdateVersions(_, _, _)
UpdateVersions(doc, managed_crates, original_versions) ==
    IF managed_crates = <<>> THEN doc
    ELSE LET c == Head(managed_crates)
         IN  UpdateVersions(
                IF c.name \in DOMAIN original_versions /\ original_versions[c.name] # ""
                THEN update_dependency_version(doc, c.name, c.version)
                ELSE doc,
                Tail(managed_crates), original_versions)

(* Lines 234-251 / 369-386: merge the new entries into [patch.<key>],      *)
(* creating `patch` and the origin table when missing.                     *)
InsertPatches(doc, patch_key, patch_table) ==
    LET old == IF doc.patch.has /\ patch_key \in DOMAIN doc.patch.tbl
               THEN doc.patch.tbl[patch_key] ELSE EmptyTable
        source_table ==
            [n \in (DOMAIN old) \cup (DOMAIN patch_table) |->
                IF n \in DOMAIN patch_table THEN patch_table[n] ELSE old[n]]
    IN  [doc EXCEPT !.patch = Present(Put(doc.patch.tbl, patch_key, source_table))]

(* Outcome of a flow: the result, the document and, for the report, the    *)
(* crates patched, the patch key used and the candidates (crates_to_patch, *)
(* of which the skipped ones are reported).                                *)
Outcome(res, doc, managed, key) ==
    [res |-> res, doc |-> doc, managed |-> managed, key |-> key, candidates |-> {},
     carried |-> NoPattern]

(* The pattern an error carries.                                           *)
Carrying(outcome, pattern) == [outcome EXCEPT !.carried = pattern]

OfCandidates(outcome, names) == [outcome EXCEPT !.candidates = names]

(* Mutation: one candidate with a patch entry stops the others.            *)
AllOrNothing(doc, crates) ==
    IF \E i \in DOMAIN crates : crates[i].name \in collect_existing_patched_crates(doc)
    THEN <<>> ELSE crates

(* The crates of the list that have no patch entry yet (lines 150-161),    *)
(* and the same for a list of names (lines 303-314).                       *)
SkipExistingCrates(doc, crates) ==
    SelectSeq(crates, LAMBDA c : c.name \notin collect_existing_patched_crates(doc))

SkipExistingNames(doc, names) ==
    SelectSeq(names, LAMBDA name : name \notin collect_existing_patched_crates(doc))

(* Lines 174-184: the versions recorded for the managed crates.            *)
RecordFrom(deps, crate_names) ==
    [n \in {m \in Range(crate_names) : deps.has /\ m \in DOMAIN deps.tbl} |->
        IF get_dependency_version(deps.tbl[n]) = NoVersion THEN ""
        ELSE get_dependency_version(deps.tbl[n])]

RecordOriginalVersions(doc, crate_names) ==
    RecordFrom(get_dependencies_table(doc), crate_names)

(* Mutation: the default key is used whatever was inferred.                *)
DefaultKey(git_url) == CratesIo

(* Lines 222-228.                                                          *)
PatchKey(git_url) == IF git_url # NoUrl THEN git_url ELSE CratesIo

(* Lines 196-220: { path = <crate directory> } for every managed crate; a  *)
(* later crate of the same name replaces an earlier one.                   *)
LocalPatchTable(managed_crates) ==
    [n \in Range(Names(managed_crates)) |->
        PathEntry(managed_crates[CHOOSE i \in DOMAIN managed_crates :
                      /\ managed_crates[i].name = n
                      /\ \A j \in DOMAIN managed_crates :
                            managed_crates[j].name = n => j <= i].dir)]

(* Lines 186-251.                                                          *)
LocalWrite(target_doc, managed_crates, patch_key, original_versions) ==
    Outcome("Ok",
            InsertPatches(
                add_managed_patch(
                    store_original_versions(
                        UpdateVersions(target_doc, managed_crates, original_versions),
                        original_versions),
                    patch_key),
                patch_key, LocalPatchTable(managed_crates)),
            Range(Names(managed_crates)), patch_key)

(* Mutation: nothing left after the skips is an error.                     *)
NoneLeftFails(target_doc, managed_crates) ==
    IF managed_crates = <<>> THEN Outcome("NoMatchingCrates", target_doc, {}, NoField)
    ELSE LocalWrite(target_doc, managed_crates,
                    PatchKey(detect_common_git_url(target_doc, Names(managed_crates))),
                    RecordOriginalVersions(target_doc, Names(managed_crates)))

(* Lines 163-184.                                                          *)
LocalManaged(target_doc, managed_crates) ==
    IF managed_crates = <<>> THEN Outcome("Ok", target_doc, {}, NoField)
    ELSE LocalWrite(target_doc, managed_crates,
                    PatchKey(detect_common_git_url(target_doc, Names(managed_crates))),
                    RecordOriginalVersions(target_doc, Names(managed_crates)))

(* Lines 145-161.                                                          *)
LocalCandidates(target_doc, crates_to_patch) ==
    IF crates_to_patch = <<>> THEN Outcome("Ok", target_doc, {}, NoField)
    ELSE OfCandidates(
            LocalManaged(target_doc,
                         SkipExistingCrates(target_doc, crates_to_patch)),
            Range(Names(crates_to_patch)))

(* Mutation: the source members are not narrowed to the declared           *)
(* dependencies.                                                           *)
AllMembers(target_doc, filtered, current_deps) ==
    IF filtered.res # "Ok"
    THEN Carrying(Outcome(filtered.res, target_doc, {}, NoField), filtered.pattern)
    ELSE LocalCandidates(target_doc, filtered.crates)

(* Lines 137-143.                                                          *)
LocalFiltered(target_doc, filtered, current_deps) ==
    IF filtered.res # "Ok"
    THEN Carrying(Outcome(filtered.res, target_doc, {}, NoField), filtered.pattern)
    ELSE LocalCandidates(target_doc,
                         SelectSeq(filtered.crates,
                                   LAMBDA c : c.name \in DOMAIN current_deps))

LocalQueried(target_doc, queried, current_deps, pattern) ==
    IF queried.res # "Ok" THEN Outcome(queried.res, target_doc, {}, NoField)
    ELSE LocalFiltered(target_doc, filter_crates_by_pattern(queried.crates, pattern),
                       current_deps)

apply_local_path_patches(target_doc, root, current_deps, pattern) ==
    LocalQueried(target_doc, query_workspace_crates(root), current_deps, pattern)

(* Mutation: the git flow records no version.                              *)
RecordNothing(managed_crates, current_deps) == EmptyTable

(* Lines 321-327.                                                          *)
GitOriginalVersions(managed_crates, current_deps) ==
    [n \in {m \in Range(managed_crates) : m \in DOMAIN current_deps} |-> current_deps[n]]

(* Lines 316-388.                                                          *)
GitManaged(target_doc, git_url, reference, current_deps, managed_crates) ==
    IF managed_crates = <<>> THEN Outcome("Ok", target_doc, {}, NoField)
    ELSE Outcome("Ok",
                 InsertPatches(
                     add_managed_patch(
                         store_original_versions(
                             target_doc,
                             GitOriginalVersions(managed_crates, current_deps)),
                         CratesIo),
                     CratesIo,
                     [n \in Range(managed_crates) |-> GitEntry(git_url, reference)]),
                 Range(managed_crates), CratesIo)

(* Lines 297-314.                                                          *)
GitCandidates(target_doc, git_url, reference, current_deps, crates_to_patch) ==
    IF crates_to_patch = <<>> THEN Outcome("NoMatchingCrates", target_doc, {}, NoField)
    ELSE OfCandidates(
            GitManaged(target_doc, git_url, reference, current_deps,
                       SkipExistingNames(target_doc, crates_to_patch)),
            Range(crates_to_patch))

(* Lines 284-289.                                                          *)
GitMatched(target_doc, git_url, reference, current_deps, re) ==
    IF ~re.ok THEN Outcome("InvalidPattern", target_doc, {}, NoField)
    ELSE GitCandidates(target_doc, git_url, reference, current_deps,
                       SelectSeq(HashIter(current_deps),
                                 LAMBDA name : is_match(re.items, name)))

(* Mutation: a missing pattern selects every dependency.                   *)
GitWithoutPattern(target_doc, git_url, reference, current_deps, pattern) ==
    GitMatched(target_doc, git_url, reference, current_deps,
               glob_pattern_regex(IF pattern.some THEN pattern.s ELSE <<"*">>))

(* Lines 291-301: the text NoMatchingCrates carries.                       *)
PatternRequired == Pattern(<<"none specified (pattern required for git sources)">>)

GitNoMatch(outcome, pattern) ==
    IF outcome.res = "NoMatchingCrates" THEN Carrying(outcome, pattern) ELSE outcome

apply_git_patches(target_doc, git_url, reference, current_deps, pattern) ==
    IF ~pattern.some
    THEN Carrying(Outcome("NoMatchingCrates", target_doc, {}, NoField), PatternRequired)
    ELSE GitNoMatch(GitMatched(target_doc, git_url, reference, current_deps,
                               glob_pattern_regex(pattern.s)),
                    pattern)

(* A run's report: the result, the document in memory at the end, whether  *)
(* write_cargo_toml was called (always with that document), and the crates *)
(* and key of the patch entries added.                                     *)
Report(res, doc, wrote, flow) ==
    [res |-> res, doc |-> doc, wrote |-> wrote, managed |-> flow.managed,
     key |-> flow.key, candidates |-> flow.candidates, carried |-> flow.carried]

NoFlow == Outcome("none", <<>>, {}, NoField)

(* Mutation: the document is written whatever the flow returned.           *)
WriteAnyway(flow) == Report(flow.res, flow.doc, TRUE, flow)

(* Lines 102-123: an error of the flow returns before write_cargo_toml.    *)
ApplyReport(flow) ==
    IF flow.res # "Ok"
    THEN Report(flow.res, flow.doc, FALSE, Carrying(NoFlow, flow.carried))
    ELSE Report("Ok", flow.doc, TRUE, flow)

(* Lines 65-114.                                                           *)
ApplyFlow(target_doc, source, pattern) ==
    IF source.kind = "local"
    THEN apply_local_path_patches(target_doc, source.root, CurrentDeps(target_doc),
                                  pattern)
    ELSE apply_git_patches(target_doc, source.url, source.reference,
                           CurrentDeps(target_doc), pattern)

(* The manifest file: whether it exists, whether its text parses, and the  *)
(* document it parses to.                                                  *)
apply_patches(file, source, pattern) ==
    IF ~file.exists
    THEN Report("TargetManifestNotFound", file.doc, FALSE, NoFlow)
    ELSE IF ~file.valid
    THEN Report("TomlParseError", file.doc, FALSE, NoFlow)
    ELSE ApplyReport(ApplyFlow(SelfClean(file.doc), source, pattern))

(* Lines 434-446.                                                          *)
RemoveReport(removed) ==
    IF removed.res # "Ok" THEN Report(removed.res, removed.doc, FALSE, NoFlow)
    ELSE IF removed.removed THEN Report("Ok", removed.doc, TRUE, NoFlow)
    ELSE Report("NoPatchesFound", removed.doc, FALSE, NoFlow)

(* Lines 413-434.                                                          *)
RemoveFrom(target_doc, original_versions) ==
    RemoveReport(remove_managed_patches(
        RestoreVersions(target_doc, HashIter(original_versions), original_versions)))

remove_patches(file) ==
    IF ~file.exists
    THEN Report("TargetManifestNotFound", file.doc, FALSE, NoFlow)
    ELSE IF ~file.valid
    THEN Report("TomlParseError", file.doc, FALSE, NoFlow)
    ELSE RemoveFrom(file.doc, get_original_versions(file.doc))

----------------------------------------------------------------------------
(* The manifests, sources and patterns explored                            *)

GitU == "https://example.com/u"

Decl(shape, version, git) == [shape |-> shape, version |-> version, git |-> git]

Crates == { <<"a">>, <<"a", "-", "b">>, <<"c">> }

(* The declarations tried for each crate; together: a bare version string, *)
(* an inline table with a version, a git-only inline table, a full table   *)
(* with version and git.                                                   *)
DeclChoices(n) ==
    CASE n = <<"a">> -> { Decl("Plain", "1.0", NoUrl), Decl("Inline", NoVersion, GitU) }
      [] n = <<"a", "-", "b">> -> { Decl("Inline", "1.1", NoUrl), Decl("Table", "1.1", GitU) }
      [] OTHER -> { Decl("Plain", "1.2", NoUrl) }

(* At most MaxDeps declared dependencies.                                  *)
MaxDeps == 2

DepTables ==
    UNION { {t \in [S -> UNION {DeclChoices(n) : n \in S}] :
                \A n \in S : t[n] \in DeclChoices(n)} :
            S \in {T \in SUBSET Crates : Cardinality(T) <= MaxDeps} }

UserEntry == PathEntry("/user/path")

(* Managed state left in the manifest while its patch entries were edited  *)
(* away by hand: crate a recorded under the default key.                   *)
Leftover ==
    [has |-> TRUE, ovHas |-> TRUE, ov |-> << <<(<<"a">>), "0.9">> >>,
     mpHas |-> TRUE, mp |-> <<CratesIo>>]

(* What a manifest may hold besides its dependencies: a workspace layout,  *)
(* another tool's key under `metadata`, a hand-written patch entry         *)
(* <<origin key, crate>>, leftover managed state whose patch table is gone *)
(* ("bare") or holds only a hand-written entry for crate d ("table").  At  *)
(* most MaxExtras of them at once.                                         *)
Extras ==
    { <<"workspace">>, <<"metadata">>,
      <<"entry", GitU, <<"a">> >>, <<"entry", CratesIo, <<"d">> >>,
      <<"leftover", "bare">>, <<"leftover", "table">> }

MaxExtras == 1

ExtraSets ==
    {X \in SUBSET Extras :
        /\ Cardinality(X) <= MaxExtras
        /\ Cardinality({x \in X : x[1] = "leftover"}) <= 1}

HandWritten(X) ==
    {<<x[2], x[3]>> : x \in {y \in X : y[1] = "entry"}}
    \cup (IF <<"leftover", "table">> \in X THEN {<<CratesIo, <<"d">> >>} ELSE {})

PatchWith(F) ==
    IF F = {} THEN Absent
    ELSE Present([k \in {e[1] : e \in F} |->
                    [n \in {e[2] : e \in {x \in F : x[1] = k}} |-> UserEntry]])

PatchOf(X) == PatchWith(HandWritten(X))

HasLeftover(X) == \E x \in X : x[1] = "leftover"

MetaOf(X) ==
    IF <<"metadata">> \notin X /\ ~HasLeftover(X) THEN NoMetadata
    ELSE [has |-> TRUE, other |-> <<"metadata">> \in X,
          ns |-> IF HasLeftover(X) THEN Leftover ELSE NoNamespace]

(* A package manifest, or a workspace root with [workspace.dependencies].  *)
Manifest(deps, X) ==
    LET ws == <<"workspace">> \in X
    IN  [workspace |-> ws,
         package |-> ~ws,
         wsDeps |-> IF ws THEN Present(deps) ELSE Absent,
         deps |-> IF ws THEN Absent ELSE Present(deps),
         wsMeta |-> IF ws THEN MetaOf(X) ELSE NoMetadata,
         pkgMeta |-> IF ws THEN NoMetadata ELSE MetaOf(X),
         patch |-> PatchOf(X)]

Manifests == { Manifest(deps, X) : deps \in DepTables, X \in ExtraSets }

File(doc) == [exists |-> TRUE, valid |-> TRUE, doc |-> doc]

EmptyDoc == Manifest(EmptyTable, {})

MissingFile == [exists |-> FALSE, valid |-> FALSE, doc |-> EmptyDoc]

UnparsableFile == [exists |-> TRUE, valid |-> FALSE, doc |-> EmptyDoc]

GitFork == Git("https://example.com/fork", [kind |-> "branch", name |-> "main"])

Sources == { LocalPath("W1"), LocalPath("W2"), GitFork }

Patterns == { NoPattern, Pattern(<<"a", "*">>), Pattern(<<"a">>) }

(* The sources and patterns that make a run fail, with some that do not.   *)
AllSources ==
    { LocalPath("W1"), GitFork,
      LocalPath("WEmpty"), LocalPath("WMissing"), LocalPath("WBroken") }

AllPatterns ==
    { NoPattern, Pattern(<<"a">>), Pattern(<<"x">>), Pattern(<<"[">>),
      Pattern(<<"a", "|", "a">>) }

----------------------------------------------------------------------------
(* The state machine                                                       *)

(* The patch entries of a document: <<origin key, crate>>.                 *)
Entries(doc) ==
    IF ~doc.patch.has THEN {}
    ELSE UNION { {<<k, n>> : n \in DOMAIN doc.patch.tbl[k]} : k \in DOMAIN doc.patch.tbl }

NoRun == [op |-> "none", source |-> LocalPath(NoField), pattern |-> NoPattern,
          res |-> "none", wrote |-> FALSE, managed |-> {}, key |-> NoField,
          candidates |-> {}, carried |-> NoPattern]

RunOf(op, source, pattern, report) ==
    [op |-> op, source |-> source, pattern |-> pattern, res |-> report.res,
     wrote |-> report.wrote, managed |-> report.managed, key |-> report.key,
     candidates |-> report.candidates, carried |-> report.carried]

(* No helper call is recorded while the commands run.                      *)
NoCall == [fn |-> "none"]

(* The run before the last: its command and result, whether it had the     *)
(* source and the pattern of the last, its candidates and the crates it    *)
(* patched, and whether it was the first run on the manifest.              *)
Earlier(run, before_run, source, pattern) ==
    [op |-> run.op, res |-> run.res, sameSource |-> run.source = source,
     samePattern |-> run.pattern = pattern, candidates |-> run.candidates,
     managed |-> run.managed, first |-> run.op # "none" /\ before_run.op = "none"]

InitWith(files) ==
    /\ disk \in files
    /\ before = disk
    /\ pristine = disk
    /\ last = NoRun
    /\ prev = Earlier(NoRun, NoRun, NoRun.source, NoRun.pattern)
    /\ written = {}
    /\ call = NoCall

(* The file after a run: replaced by the document in memory iff            *)
(* write_cargo_toml is reached.                                            *)
FileAfter(file, report) == IF report.wrote THEN File(report.doc) ELSE file

(* The patch entries the runs added and have not removed since: `kept` is  *)
(* what this run left of the entries it found.                             *)
WrittenAfter(entries, report, kept) ==
    IF report.wrote
    THEN (entries \cap kept) \cup {<<report.key, n>> : n \in report.managed}
    ELSE entries

(* One invocation of `apply`.                                              *)
Apply(source, pattern) ==
    \E report \in {apply_patches(disk, source, pattern)} :
        /\ disk' = FileAfter(disk, report)
        /\ before' = disk
        /\ last' = RunOf("apply", source, pattern, report)
        /\ prev' = Earlier(last, prev, source, pattern)
        /\ written' = WrittenAfter(written, report, Entries(SelfClean(disk.doc)))
        /\ UNCHANGED <<pristine, call>>

(* One invocation of `remove`.                                             *)
Remove ==
    \E report \in {remove_patches(disk)} :
        /\ disk' = FileAfter(disk, report)
        /\ before' = disk
        /\ last' = RunOf("remove", NoRun.source, NoPattern, report)
        /\ prev' = Earlier(last, prev, NoRun.source, NoPattern)
        /\ written' = WrittenAfter(written, report, Entries(report.doc))
        /\ UNCHANGED <<pristine, call>>

Init == InitWith({File(m) : m \in Manifests})

Next ==
    \/ \E source \in Sources, pattern \in Patterns : Apply(source, pattern)
    \/ Remove

Spec == Init /\ [][Next]_vars

(* The same commands with the failing sources and patterns as well, and a  *)
(* missing or unparsable manifest, over the manifests that declare at most *)
(* crate a.                                                                *)
InitErr ==
    InitWith({File(m) : m \in {x \in Manifests :
                    DOMAIN get_dependencies_table(x).tbl \subseteq {<<"a">>}}}
             \cup {MissingFile, UnparsableFile})

NextErr ==
    \/ \E source \in AllSources, pattern \in AllPatterns : Apply(source, pattern)
    \/ Remove

SpecErr == InitErr /\ [][NextErr]_vars

(* Applies alone: no Remove and no outside edit between them.  An Apply    *)
(* that fails writes nothing, so what is left is the work of the           *)
(* successful ones.                                                        *)
NextApplies == \E source \in Sources, pattern \in Patterns : Apply(source, pattern)

SpecApplies == Init /\ [][NextApplies]_vars

----------------------------------------------------------------------------
(* The toml_ops helpers called on their own                                *)

GitV == "https://example.com/v"

(* The orderings of a set, and the crate lists handed to a helper: the     *)
(* crates of any subset in any order.                                      *)
Orderings(S) == {seq \in [1..Cardinality(S) -> S] : Range(seq) = S}

ListedCrates == Crates \cup { <<"d">> }

CrateLists == UNION {Orderings(S) : S \in SUBSET ListedCrates}

(* The dependency tables for origin inference: each crate undeclared, a    *)
(* bare version, or git-only from one of two repositories.                 *)
DetectChoices ==
    { Decl("Plain", "1.0", NoUrl), Decl("Inline", NoVersion, GitU),
      Decl("Table", NoVersion, GitV) }

DetectTables == UNION {[S -> DetectChoices] : S \in SUBSET ListedCrates}

(* detect_common_git_url(doc, crate_names), with any URL the iteration     *)
(* order of the counts lets it return.                                     *)
Detect(doc, crate_names) ==
    \E url \in DetectResults(doc, crate_names) :
        /\ call' = [fn |-> "detect_common_git_url", doc |-> doc,
                    crate_names |-> crate_names, out |-> url]
        /\ UNCHANGED <<disk, before, last, prev, written, pristine>>

(* The documents for the table accessors and the version update: a        *)
(* package manifest, or one with a workspace section, each dependency      *)
(* table absent or holding up to two crates in any of the shapes.          *)
Document(workspace, package, wsDeps, deps) ==
    [workspace |-> workspace, package |-> package, wsDeps |-> wsDeps,
     deps |-> deps, wsMeta |-> NoMetadata, pkgMeta |-> NoMetadata,
     patch |-> Absent]

VersionChoices ==
    { Decl("Plain", "1.0", NoUrl), Decl("Inline", "1.1", NoUrl),
      Decl("Inline", NoVersion, GitU), Decl("Table", "1.1", GitU),
      Decl("Table", NoVersion, GitV) }

VersionTables ==
    UNION {[S -> VersionChoices] : S \in SUBSET { <<"a">>, <<"a", "-", "b">> }}

OptionalTables == {Absent} \cup {Present(t) : t \in VersionTables}

TomlDocs ==
    {Document(FALSE, TRUE, Absent, d) : d \in OptionalTables}
    \cup {Document(TRUE, FALSE, w, d) : w \in OptionalTables, d \in OptionalTables}

(* get_dependencies_table(doc) and get_dependencies_table_mut(doc).        *)
Tables(doc) ==
    /\ call' = [fn |-> "get_dependencies_table", doc |-> doc,
                read |-> get_dependencies_table(doc),
                mut |-> get_dependencies_table_mut(doc)]
    /\ UNCHANGED <<disk, before, last, prev, written, pristine>>

(* update_dependency_version(doc, crate_name, new_version).                *)
SetVersion(doc, crate_name, new_version) ==
    /\ call' = [fn |-> "update_dependency_version", doc |-> doc,
                crate_name |-> crate_name, new_version |-> new_version,
                out |-> update_dependency_version(doc, crate_name, new_version)]
    /\ UNCHANGED <<disk, before, last, prev, written, pristine>>

(* The documents cleared: a manifest with or without a workspace section   *)
(* and a package section, with or without another tool's key under         *)
(* `metadata`, in which the managed state was stored; and the same with a  *)
(* workspace section added after the state was stored under the package.   *)
ClearBases ==
    {[Document(ws, pkg, Absent, Present(EmptyTable)) EXCEPT
         !.wsMeta = IF ws /\ other THEN [NoMetadata EXCEPT !.has = TRUE, !.other = TRUE]
                    ELSE NoMetadata,
         !.pkgMeta = IF pkg /\ other THEN [NoMetadata EXCEPT !.has = TRUE, !.other = TRUE]
                     ELSE NoMetadata] :
        ws \in BOOLEAN, pkg \in BOOLEAN, other \in BOOLEAN}

Stored(base, name) ==
    add_managed_patch(store_original_versions(base, (name :> "1.0")), CratesIo)

(* clear_metadata(doc), on the document that `stored` became once the      *)
(* state was stored in `base`.                                             *)
Clear(base, doc) ==
    /\ call' = [fn |-> "clear_metadata", base |-> base, doc |-> doc,
                out |-> clear_metadata(doc)]
    /\ UNCHANGED <<disk, before, last, prev, written, pristine>>

(* The mappings stored: up to MaxStored of these crates, each with a       *)
(* version or with "", handed out by the map in any order.                 *)
StoredNames == ListedCrates \cup { <<"a", "a">> }

MaxStored == 3

StoredOrders ==
    UNION {Orderings(S) : S \in {T \in SUBSET StoredNames : Cardinality(T) <= MaxStored}}

VersionsOf(names) ==
    [n \in names |-> IF n = <<"a">> THEN ""
                     ELSE IF n = <<"a", "a">> THEN "2.0" ELSE "1.0"]

Reversed(seq) == [i \in DOMAIN seq |-> seq[Len(seq) + 1 - i]]

(* store_original_versions(doc, versions) with the entries of `versions`   *)
(* iterated in `order`, and again with them iterated in the reverse order. *)
Store(base, order) ==
    /\ call' = [fn |-> "store_original_versions", base |-> base, order |-> order,
                versions |-> VersionsOf(Range(order)),
                doc |-> InsertVersions(get_or_create_metadata_table(base),
                                       MetadataSide(base),
                                       SerializeFrom(order, VersionsOf(Range(order)))),
                again |-> InsertVersions(get_or_create_metadata_table(base),
                                         MetadataSide(base),
                                         SerializeFrom(Reversed(order),
                                                       VersionsOf(Range(order))))]
    /\ UNCHANGED <<disk, before, last, prev, written, pristine>>

(* The documents loaded: those above, without a namespace table, and the   *)
(* same with a namespace table under the metadata of a section they have,  *)
(* holding both records, one of them or neither.                           *)
LoadNamespaces ==
    {[has |-> TRUE, ovHas |-> o, ov |-> IF o THEN Leftover.ov ELSE <<>>,
      mpHas |-> m, mp |-> IF m THEN Leftover.mp ELSE <<>>] :
        o \in BOOLEAN, m \in BOOLEAN}

LoadDocs ==
    ClearBases
    \cup {[b EXCEPT !.wsMeta = [@ EXCEPT !.has = TRUE, !.ns = ns]] :
            b \in {x \in ClearBases : x.workspace}, ns \in LoadNamespaces}
    \cup {[b EXCEPT !.pkgMeta = [@ EXCEPT !.has = TRUE, !.ns = ns]] :
            b \in {x \in ClearBases : x.package}, ns \in LoadNamespaces}

(* get_original_versions(doc) and get_managed_patches(doc).                *)
Load(doc) ==
    /\ call' = [fn |-> "get_original_versions", doc |-> doc,
                versions |-> get_original_versions(doc),
                managed |-> get_managed_patches(doc)]
    /\ UNCHANGED <<disk, before, last, prev, written, pristine>>

(* The documents a key is added to: those above without a namespace table, *)
(* and the same with a managed-patches list of up to three keys, none      *)
(* twice, in any order.                                                    *)
OriginKeys == {CratesIo, GitU, GitV}

ManagedDocs ==
    ClearBases
    \cup {IF MetadataSide(b) = "ws"
          THEN [get_or_create_metadata_table(b) EXCEPT
                   !.wsMeta.ns.mpHas = TRUE, !.wsMeta.ns.mp = l]
          ELSE [get_or_create_metadata_table(b) EXCEPT
                   !.pkgMeta.ns.mpHas = TRUE, !.pkgMeta.ns.mp = l] :
            b \in ClearBases,
            l \in UNION {Orderings(S) : S \in SUBSET OriginKeys}}

(* add_managed_patch(doc, patch_key).                                      *)
AddManaged(doc, patch_key) ==
    /\ call' = [fn |-> "add_managed_patch", doc |-> doc, patch_key |-> patch_key,
                out |-> add_managed_patch(doc, patch_key)]
    /\ UNCHANGED <<disk, before, last, prev, written, pristine>>

InitToml == InitWith({MissingFile})

(* One call per behaviour.                                                 *)
Idle == call = NoCall

NextToml ==
    \/ Idle /\ \E t \in DetectTables, crate_names \in CrateLists :
                  Detect(Manifest(t, {}), crate_names)
    \/ Idle /\ \E doc \in TomlDocs : Tables(doc)
    \/ Idle /\ \E doc \in TomlDocs, crate_name \in Crates :
                  SetVersion(doc, crate_name, "9.9")
    \/ Idle /\ \E base \in ClearBases, name \in Crates :
                  Clear(base, Stored(base, name))
    \/ Idle /\ \E base \in {b \in ClearBases : ~b.workspace}, name \in Crates :
                  Clear([base EXCEPT !.workspace = TRUE],
                        [Stored(base, name) EXCEPT !.workspace = TRUE])
    \/ Idle /\ \E base \in ClearBases, order \in StoredOrders : Store(base, order)
    \/ Idle /\ \E doc \in LoadDocs : Load(doc)
    \/ Idle /\ \E doc \in ManagedDocs, patch_key \in OriginKeys :
                  AddManaged(doc, patch_key)

SpecToml == InitToml /\ [][NextToml]_vars

----------------------------------------------------------------------------
(* The pattern filter called on its own                                    *)

(* The characters of the patterns tried: a letter, the separator, the      *)
(* wildcards and three characters that mean something in a regex.          *)
PatternChars == {"a", "-", ".", "*", "?", "[", "|"}

MaxPattern == 3

(* The patterns of at most MaxPattern characters; `||` is left out (an     *)
(* empty alternative, which not every version of the regex crate takes).   *)
FilterPatterns ==
    {p \in UNION {[1..k -> PatternChars] : k \in 0..MaxPattern} :
        \A i \in 1..(Len(p) - 1) : ~(p[i] = "|" /\ p[i + 1] = "|")}

(* The member lists filtered: one or two of these crates, in either order. *)
FilterNames ==
    { <<"a">>, <<"b">>, <<"a", "a">>, <<"a", "-", "a">>, <<"a", "-", "b">> }

FilterLists ==
    UNION {Orderings(S) : S \in {T \in SUBSET FilterNames : Cardinality(T) \in 1..2}}

MembersNamed(names) == [i \in DOMAIN names |-> CrateInfo(names[i], "1.0", "/w")]

(* filter_crates_by_pattern(crates, pattern).                              *)
Filter(names, pattern) ==
    \E result \in {filter_crates_by_pattern(MembersNamed(names), pattern)} :
        /\ call' = [fn |-> "filter_crates_by_pattern", names |-> names,
                    pattern |-> pattern, res |-> result.res,
                    kept |-> Names(result.crates)]
        /\ UNCHANGED <<disk, before, last, prev, written, pristine>>

NextFilter ==
    \/ Idle /\ \E names \in FilterLists, p \in FilterPatterns :
                  Filter(names, Pattern(p))
    \/ Idle /\ \E names \in FilterLists : Filter(names, NoPattern)

SpecFilter == InitToml /\ [][NextFilter]_vars

----------------------------------------------------------------------------
(* One invocation of `apply`, step by step                                 *)

(* The steps of apply_patches in the order of the code: lines 39-63,       *)
(* 65-100 with 134 (the source query), 137-166 (284-319 for git), 172 and  *)
(* 222-228, 174-194 (321-327), 196-251 (329-386), 117.                     *)
StepOrder ==
    << "SelfClean", "CandidateSelection", "Filtering", "OriginSelection",
       "Mutation", "Persist", "Done" >>

(* The invocation in flight: the step it is about to run (or "Returned",   *)
(* "Failed"), the document in memory, the crates still to patch, the key   *)
(* and versions chosen, the result, and the steps it has run.              *)
Begin(source, pattern, doc) ==
    [fn |-> "apply_patches", pc |-> "SelfClean", source |-> source,
     pattern |-> pattern, doc |-> doc, crates |-> <<>>, key |-> NoField,
     versions |-> EmptyTable, res |-> "none", trail |-> <<>>]

At(step) == call.fn = "apply_patches" /\ call.pc = step

Enter(c, step) == [c EXCEPT !.trail = Append(@, step)]

(* Mutation: the error is noted and the invocation goes on to the write.   *)
FailAndGoOn(c, res) == [c EXCEPT !.pc = "Done", !.res = res]

(* `?` and `return Err(..)`: the invocation ends with the error.           *)
Fail(c, res) == [c EXCEPT !.pc = "Failed", !.res = res]

(* Lines 30-37.                                                            *)
Start(source, pattern) ==
    /\ call' = IF ~disk.exists
               THEN Fail(Begin(source, pattern, disk.doc), "TargetManifestNotFound")
               ELSE IF ~disk.valid
               THEN Fail(Begin(source, pattern, disk.doc), "TomlParseError")
               ELSE Begin(source, pattern, disk.doc)
    /\ UNCHANGED <<disk, before, last, prev, written, pristine>>

(* Lines 39-63.                                                            *)
StepSelfClean ==
    /\ At("SelfClean")
    /\ call' = [Enter(call, "SelfClean") EXCEPT
                   !.pc = "CandidateSelection", !.doc = SelfClean(call.doc)]
    /\ UNCHANGED <<disk, before, last, prev, written, pristine>>

(* Lines 65-100 and 134: the source members, or for a git source the names *)
(* of the declared dependencies.                                           *)
Queried(c, queried) ==
    IF queried.res # "Ok" THEN Fail(c, queried.res)
    ELSE [c EXCEPT !.pc = "Filtering", !.crates = queried.crates]

StepCandidateSelection ==
    /\ At("CandidateSelection")
    /\ call' = IF call.source.kind = "local"
               THEN Queried(Enter(call, "CandidateSelection"),
                            query_workspace_crates(call.source.root))
               ELSE [Enter(call, "CandidateSelection") EXCEPT
                        !.pc = "Filtering", !.crates = HashIter(CurrentDeps(call.doc))]
    /\ UNCHANGED <<disk, before, last, prev, written, pristine>>

(* Lines 145-166 and 297-319: nothing left to patch returns Ok, and the    *)
(* caller writes the document.                                             *)
Survivors(c, managed_crates) ==
    IF managed_crates = <<>> THEN [c EXCEPT !.pc = "Done", !.crates = <<>>]
    ELSE [c EXCEPT !.pc = "OriginSelection", !.crates = managed_crates]

(* Lines 137-161.                                                          *)
FilteredLocal(c, filtered, current_deps) ==
    IF filtered.res # "Ok" THEN Fail(c, filtered.res)
    ELSE Survivors(c, SkipExistingCrates(
                          c.doc,
                          SelectSeq(filtered.crates,
                                    LAMBDA x : x.name \in DOMAIN current_deps)))

(* Lines 284-314.                                                          *)
NamedGit(c, crates_to_patch) ==
    IF crates_to_patch = <<>> THEN Fail(c, "NoMatchingCrates")
    ELSE Survivors(c, SkipExistingNames(c.doc, crates_to_patch))

MatchedGit(c, re) ==
    IF ~re.ok THEN Fail(c, "InvalidPattern")
    ELSE NamedGit(c, SelectSeq(c.crates, LAMBDA name : is_match(re.items, name)))

FilteredGit(c) ==
    IF ~c.pattern.some THEN Fail(c, "NoMatchingCrates")
    ELSE MatchedGit(c, glob_pattern_regex(c.pattern.s))

StepFiltering ==
    /\ At("Filtering")
    /\ call' = IF call.source.kind = "local"
               THEN FilteredLocal(Enter(call, "Filtering"),
                                  filter_crates_by_pattern(call.crates, call.pattern),
                                  CurrentDeps(call.doc))
               ELSE FilteredGit(Enter(call, "Filtering"))
    /\ UNCHANGED <<disk, before, last, prev, written, pristine>>

(* Lines 172 and 222-228; "crates-io" for a git source (line 366).         *)
StepOriginSelection ==
    /\ At("OriginSelection")
    /\ call' = [Enter(call, "OriginSelection") EXCEPT
                   !.pc = "Mutation",
                   !.key = IF call.source.kind = "local"
                           THEN PatchKey(detect_common_git_url(call.doc,
                                                               Names(call.crates)))
                           ELSE CratesIo]
    /\ UNCHANGED <<disk, before, last, prev, written, pristine>>

(* Lines 174-194 and 321-327.                                              *)
Mutated(c, original_versions) ==
    [c EXCEPT !.pc = "Persist", !.versions = original_versions,
              !.doc = IF c.source.kind = "local"
                      THEN UpdateVersions(c.doc, c.crates, original_versions)
                      ELSE c.doc]

StepMutation ==
    /\ At("Mutation")
    /\ call' = Mutated(Enter(call, "Mutation"),
                       IF call.source.kind = "local"
                       THEN RecordOriginalVersions(call.doc, Names(call.crates))
                       ELSE GitOriginalVersions(call.crates, CurrentDeps(call.doc)))
    /\ UNCHANGED <<disk, before, last, prev, written, pristine>>

(* Lines 196-251 and 329-386.                                              *)
StepPersist ==
    /\ At("Persist")
    /\ call' = [Enter(call, "Persist") EXCEPT
                   !.pc = "Done",
                   !.doc = InsertPatches(
                               add_managed_patch(
                                   store_original_versions(call.doc, call.versions),
                                   call.key),
                               call.key,
                               IF call.source.kind = "local"
                               THEN LocalPatchTable(call.crates)
                               ELSE [n \in Range(call.crates) |->
                                        GitEntry(call.source.url,
                                                 call.source.reference)])]
    /\ UNCHANGED <<disk, before, last, prev, written, pristine>>

(* Line 117: write_cargo_toml, then Ok.                                    *)
StepDone ==
    /\ At("Done")
    /\ call' = [Enter(call, "Done") EXCEPT !.pc = "Returned", !.res = "Ok"]
    /\ disk' = File(call.doc)
    /\ UNCHANGED <<before, last, prev, written, pristine>>

Steps ==
    \/ StepSelfClean
    \/ StepCandidateSelection
    \/ StepFiltering
    \/ StepOriginSelection
    \/ StepMutation
    \/ StepPersist
    \/ StepDone

NextSteps ==
    \/ Idle /\ \E source \in AllSources, pattern \in AllPatterns :
                  Start(source, pattern)
    \/ Steps

(* An invocation that has neither returned nor failed, and a step of it.   *)
Running == call.fn = "apply_patches" /\ call.pc \notin {"Returned", "Failed"}

Stepped == Running /\ call' # call

(* The invocation is synchronous and is not cancelled: a step that can run *)
(* does run.  This is weak fairness of Steps, written out: a step is       *)
(* enabled exactly while the invocation is running, and every change of    *)
(* the invocation is a step.                                               *)
SpecSteps ==
    /\ InitErr /\ [][NextSteps]_vars
    /\ WF_vars(StepDone)
    /\ ([]<>~Running \/ []<><<Stepped>>_vars)

----------------------------------------------------------------------------
(* `apply` with the iteration order of every hash map given                *)

(* The order in which a map with the keys S hands them out.                *)
Restrict(order, S) == SelectSeq(order, LAMBDA n : n \in S)

(* apply_patches, lines 39-63, with previous_versions iterated in the      *)
(* given order.                                                            *)
SelfCleanInOrder(doc, order) ==
    IF get_managed_patches(doc) = <<>> THEN doc
    ELSE remove_managed_patches(
            RestoreVersions(doc,
                            Restrict(order, DOMAIN get_original_versions(doc)),
                            get_original_versions(doc))).doc

(* Iterator::max_by_key over the counts in the order `counted`: the last   *)
(* of the URLs of maximal count.                                           *)
LastMax(tbl, crate_names, counted) ==
    counted[CHOOSE i \in DOMAIN counted : \A j \in DOMAIN counted :
                \/ GitUrlCount(tbl, crate_names, counted[j])
                      < GitUrlCount(tbl, crate_names, counted[i])
                \/ /\ GitUrlCount(tbl, crate_names, counted[j])
                         = GitUrlCount(tbl, crate_names, counted[i])
                   /\ j <= i]

(* Mutation: the most frequent URL in that order, without the majority     *)
(* rule.                                                                   *)
MostFrequentInOrder(deps, crate_names, urls) ==
    IF ~deps.has \/ CountedUrls(deps.tbl, crate_names) = {} THEN NoUrl
    ELSE LastMax(deps.tbl, crate_names,
                 Restrict(urls, CountedUrls(deps.tbl, crate_names)))

(* detect_common_git_url, lines 103-122, with git_url_counts iterated in   *)
(* the order `urls`.                                                       *)
DetectInOrder(deps, crate_names, urls) ==
    IF ~deps.has \/ CountedUrls(deps.tbl, crate_names) = {} THEN NoUrl
    ELSE IF GitUrlCount(deps.tbl, crate_names,
                        LastMax(deps.tbl, crate_names,
                                Restrict(urls, CountedUrls(deps.tbl, crate_names))))
            > Len(crate_names) \div 2
    THEN LastMax(deps.tbl, crate_names,
                 Restrict(urls, CountedUrls(deps.tbl, crate_names)))
    ELSE NoUrl

(* The invocation's end: an error before the write, an Ok with nothing to  *)
(* patch, an Ok with patches.                                              *)
Stopped(res, doc) ==
    [res |-> res, wrote |-> FALSE, doc |-> doc, key |-> NoField, managed |-> {}]

NothingLeft(doc) ==
    [res |-> "Ok", wrote |-> TRUE, doc |-> doc, key |-> NoField, managed |-> {}]

(* Lines 231-251 and 365-386, with original_versions iterated in the given *)
(* order by store_original_versions.                                       *)
WriteInOrder(doc, patch_key, versions, patch_table, order) ==
    [res |-> "Ok", wrote |-> TRUE, key |-> patch_key, managed |-> DOMAIN patch_table,
     doc |-> InsertPatches(
                 add_managed_patch(
                     InsertVersions(get_or_create_metadata_table(doc),
                                    MetadataSide(doc),
                                    SerializeFrom(Restrict(order, DOMAIN versions),
                                                  versions)),
                     patch_key),
                 patch_key, patch_table)]

(* apply_local_path_patches, lines 163-251.                                *)
LocalManagedInOrder(target_doc, managed_crates, original_versions, o) ==
    IF managed_crates = <<>> THEN NothingLeft(target_doc)
    ELSE WriteInOrder(UpdateVersions(target_doc, managed_crates, original_versions),
                      PatchKey(DetectInOrder(get_dependencies_table(target_doc),
                                             Names(managed_crates), o.urls)),
                      original_versions, LocalPatchTable(managed_crates), o.stored)

(* Lines 137-161.                                                          *)
LocalFilteredInOrder(target_doc, filtered, managed_crates, o) ==
    IF filtered.res # "Ok" THEN Stopped(filtered.res, target_doc)
    ELSE LocalManagedInOrder(target_doc, managed_crates,
                             RecordOriginalVersions(target_doc, Names(managed_crates)),
                             o)

(* Lines 134-143.                                                          *)
LocalQueriedInOrder(target_doc, queried, filtered, o) ==
    IF queried.res # "Ok" THEN Stopped(queried.res, target_doc)
    ELSE LocalFilteredInOrder(
            target_doc, filtered,
            SkipExistingCrates(
                target_doc,
                SelectSeq(filtered.crates,
                          LAMBDA x : x.name \in DOMAIN CurrentDeps(target_doc))),
            o)

(* apply_git_patches, lines 303-386.                                       *)
GitNamedInOrder(target_doc, source, crates_to_patch, managed_crates, o) ==
    IF crates_to_patch = <<>> THEN Stopped("NoMatchingCrates", target_doc)
    ELSE IF managed_crates = <<>> THEN NothingLeft(target_doc)
    ELSE WriteInOrder(target_doc, CratesIo,
                      GitOriginalVersions(managed_crates, CurrentDeps(target_doc)),
                      [n \in Range(managed_crates) |->
                          GitEntry(source.url, source.reference)],
                      o.stored)

(* Lines 283-301, with the keys of current_deps iterated in the given      *)
(* order.                                                                  *)
GitMatchedInOrder(target_doc, source, re, crates_to_patch, o) ==
    IF ~re.ok THEN Stopped("InvalidPattern", target_doc)
    ELSE GitNamedInOrder(target_doc, source, crates_to_patch,
                         SkipExistingNames(target_doc, crates_to_patch), o)

GitInOrder(target_doc, source, pattern, re, o) ==
    IF ~pattern.some THEN Stopped("NoMatchingCrates", target_doc)
    ELSE GitMatchedInOrder(
            target_doc, source, re,
            SelectSeq(Restrict(o.keys, DOMAIN CurrentDeps(target_doc)),
                      LAMBDA name : re.ok /\ is_match(re.items, name)),
            o)

(* apply_patches, lines 30-123.                                            *)
FlowInOrder(target_doc, source, pattern, o) ==
    IF source.kind = "local"
    THEN LocalQueriedInOrder(
            target_doc, query_workspace_crates(source.root),
            filter_crates_by_pattern(query_workspace_crates(source.root).crates,
                                     pattern),
            o)
    ELSE GitInOrder(target_doc, source, pattern,
                    glob_pattern_regex(pattern.s), o)

ApplyInOrder(file, source, pattern, o) ==
    IF ~file.exists THEN Stopped("TargetManifestNotFound", file.doc)
    ELSE IF ~file.valid THEN Stopped("TomlParseError", file.doc)
    ELSE FlowInOrder(SelfCleanInOrder(file.doc, o.restored), source, pattern, o)

(* The manifests it runs on: those above, the same with the git URL of     *)
(* crate a-b changed, so that two URLs can tie, and each of them as an     *)
(* Apply leaves it.                                                        *)
OtherUrl(deps) ==
    [n \in DOMAIN deps |->
        IF n = <<"a", "-", "b">> /\ deps[n].git # NoUrl
        THEN [deps[n] EXCEPT !.git = GitV] ELSE deps[n]]

OrderManifests ==
    Manifests \cup {Manifest(OtherUrl(deps), X) : deps \in DepTables, X \in ExtraSets}

OrderFiles ==
    {File(m) : m \in OrderManifests}
    \cup {FileAfter(File(m), apply_patches(File(m), source, pattern)) :
            m \in OrderManifests, source \in Sources, pattern \in Patterns}

(* One invocation on the file, each map iterated in an order of its keys:  *)
(* previous_versions, the keys of current_deps (read by the git flow       *)
(* only), original_versions and git_url_counts (filled by the local-path   *)
(* flow only).                                                             *)
InOrder(source, pattern, o) ==
    /\ call' = [fn |-> "apply_patches in order", source |-> source,
                pattern |-> pattern, o |-> o,
                out |-> ApplyInOrder(disk, source, pattern, o)]
    /\ UNCHANGED <<disk, before, last, prev, written, pristine>>

InitOrders == InitWith(OrderFiles)

NextOrders ==
    Idle /\ \E source \in Sources, pattern \in Patterns :
            \E restored \in Orderings(DOMAIN get_original_versions(disk.doc)),
               keys \in IF source.kind = "git"
                        THEN Orderings(DOMAIN CurrentDeps(disk.doc)) ELSE {<<>>},
               stored \in Orderings(DOMAIN CurrentDeps(disk.doc)),
               urls \in IF source.kind = "local"
                        THEN Orderings({GitU, GitV}) ELSE {<<>>} :
                InOrder(source, pattern,
                        [restored |-> restored, keys |-> keys,
                         stored |-> stored, urls |-> urls])

SpecOrders == InitOrders /\ [][NextOrders]_vars

----------------------------------------------------------------------------
(* What the properties speak about                                         *)

(* The managed state of a manifest: original_versions, managed_origins.    *)
OriginalVersions(doc) == get_original_versions(doc)

ManagedOrigins(doc) == Range(get_managed_patches(doc))

HasManagedState(doc) == get_metadata_table(doc).has

(* The patch entries of a manifest with what they redirect to.             *)
PatchEntries(doc) == [e \in Entries(doc) |-> doc.patch.tbl[e[1]][e[2]]]

(* The declared dependencies: shape, version and git of each.              *)
Declared(doc) == get_dependencies_table(doc).tbl

(* An entry the managed state records as its own: its key is a managed     *)
(* origin and its crate has an original version.  Any other is foreign.    *)
Recorded(doc, e) ==
    e[1] \in ManagedOrigins(doc) /\ e[2] \in DOMAIN OriginalVersions(doc)

ForeignEntries(doc) == {e \in Entries(doc) : ~Recorded(doc, e)}

ApplyOk(run) == run.op = "apply" /\ run.res = "Ok"

----------------------------------------------------------------------------
(* C1: Idempotence.  Whenever an Apply(S, p) that succeeded is followed    *)
(* immediately by Apply(S, p) again, the second leaves the managed state   *)
(* (original_versions, managed_origins), the patch entries and the         *)
(* declared dependencies exactly as the first left them.                   *)
C1_Idempotence ==
    (/\ last.op = "apply"
     /\ ApplyOk(prev) /\ prev.sameSource /\ prev.samePattern)
    => /\ last.res = "Ok"
       /\ OriginalVersions(disk.doc) = OriginalVersions(before.doc)
       /\ ManagedOrigins(disk.doc) = ManagedOrigins(before.doc)
       /\ PatchEntries(disk.doc) = PatchEntries(before.doc)
       /\ Declared(disk.doc) = Declared(before.doc)

(* C1, the same for the manifests whose managed state, when they have one, *)
(* still has its patch table.                                              *)
C1_IdempotenceUnlessStale ==
    (HasManagedState(pristine.doc) => pristine.doc.patch.has) => C1_Idempotence

(* C2: Round-trip.  On a manifest that started without managed state, an   *)
(* Apply that succeeded followed by Remove leaves every dependency         *)
(* declaration (version and shape), the metadata tables and the patch      *)
(* table exactly as they were before the Apply.                            *)
C2_RoundTrip ==
    (/\ ~HasManagedState(pristine.doc)
     /\ last.op = "remove" /\ ApplyOk(prev))
    => /\ Declared(disk.doc) = Declared(pristine.doc)
       /\ disk.doc.wsMeta = pristine.doc.wsMeta
       /\ disk.doc.pkgMeta = pristine.doc.pkgMeta
       /\ disk.doc.patch = pristine.doc.patch
       /\ disk.doc = pristine.doc

(* C2 case: the Apply created the metadata and the patch table and changed *)
(* a version, and the Remove succeeded.                                    *)
C2_Witness ==
    /\ ~HasManagedState(pristine.doc) /\ ~pristine.doc.patch.has
    /\ ~pristine.doc.pkgMeta.has /\ ~pristine.doc.wsMeta.has
    /\ last.op = "remove" /\ last.res = "Ok" /\ ApplyOk(prev)
    /\ HasManagedState(before.doc) /\ before.doc.patch.has
    /\ Declared(before.doc) # Declared(pristine.doc)

(* C3: Non-interference.  In every run (an Apply, a re-Apply or a Remove)  *)
(* a patch entry the manifest held before the run that is foreign and      *)
(* whose crate is not a candidate of the run is still there afterwards     *)
(* with the same content.                                                  *)
C3_NonInterference ==
    \A e \in ForeignEntries(before.doc) :
        e[2] \notin last.candidates
        => /\ e \in Entries(disk.doc)
           /\ PatchEntries(disk.doc)[e] = PatchEntries(before.doc)[e]

(* C3 case: after a Remove that took the tool's entries out of an origin   *)
(* table a foreign entry shares with them, and after a re-Apply on such a  *)
(* table.                                                                  *)
C3_Witness ==
    /\ last.res = "Ok" /\ last.op = "remove" /\ prev.op = "apply"
    /\ \E e \in ForeignEntries(before.doc) :
          /\ e[2] \notin last.candidates
          /\ \E f \in Entries(before.doc) \ Entries(disk.doc) : f[1] = e[1]

(* C4: Foreign-entry guard.  After a successful Apply, every patch entry   *)
(* the manifest held after self-clean for a candidate crate is unchanged,  *)
(* that crate's declaration is as self-clean left it, and the crate is not *)
(* in original_versions.                                                   *)
C4_ForeignEntryGuard ==
    ApplyOk(last)
    => \A e \in Entries(SelfClean(before.doc)) :
          e[2] \in last.candidates
          => /\ e \in Entries(disk.doc)
             /\ PatchEntries(disk.doc)[e] = PatchEntries(SelfClean(before.doc))[e]
             /\ e[2] \in DOMAIN Declared(disk.doc)
             /\ Declared(disk.doc)[e[2]] = Declared(SelfClean(before.doc))[e[2]]
             /\ e[2] \notin DOMAIN OriginalVersions(disk.doc)

(* C4 case: a candidate was skipped for its entry under another key than   *)
(* the one chosen, while another candidate was patched.                    *)
C4_Witness ==
    /\ ApplyOk(last) /\ last.managed # {}
    /\ \E e \in Entries(SelfClean(before.doc)) :
          e[2] \in last.candidates /\ e[1] # last.key

(* C5: Pruning.  Apply(S, p1) then Apply(S, p2), the candidates of the     *)
(* second among those of the first.                                        *)
Narrowed ==
    /\ ApplyOk(last) /\ ApplyOk(prev) /\ prev.sameSource
    /\ last.candidates \subseteq prev.candidates

VersionOf(doc, n) == get_dependency_version(Declared(doc)[n])

(* C5 as stated: the patch table and original_versions hold exactly the    *)
(* crates matched by p2; a crate matched by p1 only has no patch entry and *)
(* the version it declared before the first Apply; a crate still matched   *)
(* keeps its patched version and its original version record.              *)
C5_PruningAsStated ==
    Narrowed
    => /\ {e[2] : e \in Entries(disk.doc)} = last.candidates
       /\ DOMAIN OriginalVersions(disk.doc) = last.candidates
       /\ \A n \in prev.candidates \ last.candidates :
             /\ \A e \in Entries(disk.doc) : e[2] # n
             /\ prev.first => VersionOf(disk.doc, n) = VersionOf(pristine.doc, n)
       /\ \A n \in last.candidates :
             /\ VersionOf(disk.doc, n) = VersionOf(before.doc, n)
             /\ n \in DOMAIN OriginalVersions(before.doc)
             /\ OriginalVersions(disk.doc)[n] = OriginalVersions(before.doc)[n]

(* C5, amended: when the first Apply patched a crate, the second patches   *)
(* exactly its candidates that have no foreign entry; the entries that are *)
(* not foreign and the keys of original_versions are exactly those crates; *)
(* a crate patched by the first Apply only has its recorded original       *)
(* version again (its declaration is untouched when the record is empty);  *)
(* a crate still patched keeps its patched declaration and its record.     *)
C5_Pruning ==
    (Narrowed /\ prev.managed # {})
    => /\ last.managed =
             last.candidates \ {e[2] : e \in ForeignEntries(before.doc)}
       /\ Entries(disk.doc) \ ForeignEntries(before.doc) =
             {<<last.key, n>> : n \in last.managed}
       /\ DOMAIN OriginalVersions(disk.doc) = last.managed
       /\ \A n \in prev.managed \ last.managed :
             IF OriginalVersions(before.doc)[n] # ""
             THEN VersionOf(disk.doc, n) = OriginalVersions(before.doc)[n]
             ELSE Declared(disk.doc)[n] = Declared(before.doc)[n]
       /\ \A n \in last.managed :
             /\ Declared(disk.doc)[n] = Declared(before.doc)[n]
             /\ OriginalVersions(disk.doc)[n] = OriginalVersions(before.doc)[n]

(* C5 case: the second Apply dropped a crate whose version the first had   *)
(* changed, and kept another.                                              *)
C5_Witness ==
    /\ Narrowed /\ last.managed # {}
    /\ \E n \in prev.managed \ last.managed :
          VersionOf(disk.doc, n) # VersionOf(before.doc, n)

(* C6: Managed-state invariant.  On a manifest that started without        *)
(* managed state, after any runs, the keys of original_versions are the    *)
(* crates of the entries the tool wrote and has not removed, these entries *)
(* are in the patch table, and managed_origins is the set of their keys.   *)
C6_ManagedState ==
    ~HasManagedState(pristine.doc)
    => /\ written \subseteq Entries(disk.doc)
       /\ DOMAIN OriginalVersions(disk.doc) = {e[2] : e \in written}
       /\ ManagedOrigins(disk.doc) = {e[1] : e \in written}

(* C6 case: entries written by a second Apply under a git origin key, next *)
(* to a crate of the first Apply that it no longer patches.                *)
C6_Witness ==
    /\ ~HasManagedState(pristine.doc)
    /\ ApplyOk(last) /\ ApplyOk(prev) /\ prev.managed \ last.managed # {}
    /\ written # {} /\ \A e \in written : e[1] # CratesIo

(* C7: Write-once-at-end.  A run writes the manifest only when it          *)
(* succeeds, and after a run that returned an error the manifest on disk   *)
(* is what it was before the run.                                          *)
C7_WriteOnceAtEnd ==
    /\ last.wrote => last.res = "Ok"
    /\ last.res # "Ok" => disk = before

(* C7 case: an Apply failed after self-clean had changed the document in   *)
(* memory.                                                                 *)
C7_Witness ==
    /\ last.op = "apply" /\ last.res \notin {"Ok", "none"}
    /\ before.exists /\ before.valid
    /\ SelfClean(before.doc) # before.doc

(* C8: Remove on a manifest that records no managed origin fails with      *)
(* NoPatchesFound and does not write.                                      *)
C8_RemoveWithoutState ==
    (last.op = "remove" /\ get_managed_patches(before.doc) = <<>>)
    => /\ last.res = "NoPatchesFound"
       /\ ~last.wrote
       /\ disk = before

(* C8 case: Apply; Remove; Remove.                                         *)
C8_Witness ==
    /\ ~HasManagedState(pristine.doc)
    /\ last.op = "remove" /\ last.res = "NoPatchesFound"
    /\ prev.op = "remove" /\ prev.res = "Ok"

(* C9: Remove on a manifest with managed state where no recorded crate has *)
(* an entry under a managed origin (or there is no patch table) reports an *)
(* error.                                                                  *)
C9_RemoveNothingFails ==
    (/\ last.op = "remove"
     /\ get_managed_patches(before.doc) # <<>>
     /\ \A e \in Entries(before.doc) : ~Recorded(before.doc, e))
    => last.res # "Ok"

(* C9, the half that holds: without a patch table Remove fails.            *)
C9_RemoveWithoutTableFails ==
    (/\ last.op = "remove"
     /\ get_managed_patches(before.doc) # <<>>
     /\ ~before.doc.patch.has)
    => last.res = "NoPatchesFound" /\ disk = before

(* The glob of section 4.1: p from position i matches s from position j.   *)
RECURSIVE GlobFrom(_, _, _, _)
GlobFrom(p, i, s, j) ==
    IF i > Len(p) THEN j > Len(s)
    ELSE IF p[i] = "*"
    THEN GlobFrom(p, i + 1, s, j) \/ (j <= Len(s) /\ GlobFrom(p, i, s, j + 1))
    ELSE /\ j <= Len(s)
         /\ (p[i] = "?" \/ p[i] = s[j])
         /\ GlobFrom(p, i + 1, s, j + 1)

GlobMatches(p, s) == GlobFrom(p, 1, s, 1)

C11_NoVersionStays ==
    \A n \in DOMAIN Declared(pristine.doc) :
        Declared(pristine.doc)[n].version = NoVersion
        => /\ n \in DOMAIN Declared(disk.doc)
           /\ Declared(disk.doc)[n] = Declared(pristine.doc)[n]
           /\ (\E e \in written : e[2] = n)
              => /\ n \in DOMAIN OriginalVersions(disk.doc)
                 /\ OriginalVersions(disk.doc)[n] = ""

(* C11 case: a Remove that succeeded on a manifest where the Apply before  *)
(* had patched a git-only dependency and recorded "" for it.               *)
C11_Witness ==
    /\ last.op = "remove" /\ last.res = "Ok" /\ ApplyOk(prev)
    /\ \E n \in prev.managed :
          /\ Declared(pristine.doc)[n].version = NoVersion
          /\ OriginalVersions(before.doc)[n] = ""
          /\ <<CratesIo, n>> \in Entries(before.doc)

(* C13: origin selection.  The entries an Apply added: those of the        *)
(* manifest it wrote that self-clean had not left in place.                *)
Added(doc_before, doc_after) == Entries(doc_after) \ Entries(SelfClean(doc_before))

(* The crates of a set whose declaration has git = u.                      *)
FromGit(doc, crates, u) ==
    {n \in crates \cap DOMAIN Declared(doc) :
        Declared(doc)[n].shape # "Plain" /\ Declared(doc)[n].git = u}

(* The key origin inference gives for the crates patched.                  *)
InferredKey(doc, crates) ==
    IF Cardinality(FromGit(doc, crates, GitU)) > Cardinality(crates) \div 2
    THEN GitU
    ELSE CratesIo

(* C13: after a successful local-path Apply all the entries it added are   *)
(* path entries under one key, the URL inferred over the crates patched    *)
(* when there is one and "crates-io" otherwise; after a successful git     *)
(* Apply they are all under "crates-io" and target the requested URL with  *)
(* the requested reference.                                                *)
C13_OriginSelection ==
    ApplyOk(last)
    => \A e \in Added(before.doc, disk.doc) :
          IF last.source.kind = "local"
          THEN /\ e[1] = InferredKey(before.doc,
                                     {f[2] : f \in Added(before.doc, disk.doc)})
               /\ PatchEntries(disk.doc)[e].git = NoField
               /\ PatchEntries(disk.doc)[e].path # NoField
          ELSE /\ e[1] = CratesIo
               /\ PatchEntries(disk.doc)[e] =
                     GitEntry(last.source.url, last.source.reference)

(* C13 case: a local-path Apply patched two crates that both come from the *)
(* same repository and wrote both entries under its URL.                   *)
C13_Witness ==
    /\ ApplyOk(last) /\ last.source.kind = "local"
    /\ Cardinality(Added(before.doc, disk.doc)) = 2
    /\ \A e \in Added(before.doc, disk.doc) : e[1] = GitU

(* C14: the member of a source workspace with a given name, and the        *)
(* members that the target declares.                                       *)
Member(root, n) == CHOOSE m \in Range(Workspaces[root].members) : m.name = n

DeclaredMembers(root, doc) ==
    {m.name : m \in Range(Workspaces[root].members)} \cap DOMAIN Declared(doc)

(* The version recorded for a declaration: "" when it has no version.      *)
RecordedVersion(dep) == IF dep.version = NoVersion THEN "" ELSE dep.version

(* C14: a successful local-path Apply with no pattern on a manifest        *)
(* without managed state or patch table patches exactly the source members *)
(* that the target declares: they are the crates with a patch entry and    *)
(* the keys of original_versions, each recorded with its declared version  *)
(* ("" when it has none); managed_origins is the one chosen key; each has  *)
(* a path entry to the member's directory under that key; each declared    *)
(* version is now the member's version, and a declaration without version  *)
(* is unchanged.                                                           *)
C14_ApplyAll ==
    (/\ ApplyOk(last) /\ last.source.kind = "local" /\ ~last.pattern.some
     /\ ~HasManagedState(before.doc) /\ ~before.doc.patch.has)
    => /\ {e[2] : e \in Entries(disk.doc)} =
             DeclaredMembers(last.source.root, before.doc)
       /\ DOMAIN OriginalVersions(disk.doc) =
             DeclaredMembers(last.source.root, before.doc)
       /\ get_managed_patches(disk.doc) =
             IF DeclaredMembers(last.source.root, before.doc) = {} THEN <<>>
             ELSE <<InferredKey(before.doc,
                                DeclaredMembers(last.source.root, before.doc))>>
       /\ \A n \in DeclaredMembers(last.source.root, before.doc) :
             /\ OriginalVersions(disk.doc)[n] =
                   RecordedVersion(Declared(before.doc)[n])
             /\ {e \in Entries(disk.doc) : e[2] = n} =
                   {<<get_managed_patches(disk.doc)[1], n>>}
             /\ PatchEntries(disk.doc)[<<get_managed_patches(disk.doc)[1], n>>] =
                   PathEntry(Member(last.source.root, n).dir)
             /\ Declared(disk.doc)[n] =
                   IF Declared(before.doc)[n].version = NoVersion
                   THEN Declared(before.doc)[n]
                   ELSE [Declared(before.doc)[n] EXCEPT
                            !.version = Member(last.source.root, n).version]
       /\ \A n \in DOMAIN Declared(before.doc) \
                    DeclaredMembers(last.source.root, before.doc) :
             Declared(disk.doc)[n] = Declared(before.doc)[n]

(* C14 case: two members declared, one with a version that changed and one *)
(* without a version.                                                      *)
C14_Witness ==
    /\ ApplyOk(last) /\ last.source.kind = "local" /\ ~last.pattern.some
    /\ ~HasManagedState(before.doc) /\ ~before.doc.patch.has
    /\ Cardinality(DeclaredMembers(last.source.root, before.doc)) = 2
    /\ \E n \in DeclaredMembers(last.source.root, before.doc) :
          Declared(before.doc)[n].version = NoVersion
    /\ \E n \in DeclaredMembers(last.source.root, before.doc) :
          Declared(disk.doc)[n].version # Declared(before.doc)[n].version

(* C15: an Apply with a pattern touches only crates whose name matches the *)
(* pattern: after a successful Apply with a pattern, every declaration of  *)
(* a crate the pattern does not match is as before the Apply, no patch     *)
(* entry was added for such a crate and original_versions has no record    *)
(* of it.                                                                  *)
C15_OnlyMatching ==
    (ApplyOk(last) /\ last.pattern.some)
    => /\ \A n \in DOMAIN Declared(before.doc) :
             ~GlobMatches(last.pattern.s, n)
             => /\ n \in DOMAIN Declared(disk.doc)
                /\ Declared(disk.doc)[n] = Declared(before.doc)[n]
                /\ n \notin DOMAIN OriginalVersions(disk.doc)
       /\ \A e \in Entries(disk.doc) \ Entries(before.doc) :
             GlobMatches(last.pattern.s, e[2])

(* C15, on the manifests that hold no managed state when the Apply starts. *)
C15_OnlyMatchingFirst ==
    ~HasManagedState(before.doc) => C15_OnlyMatching

(* C16: a pattern matches a crate name iff the whole name satisfies it     *)
(* (`*` any run of characters, `-` included, `?` any one character), never *)
(* a part of the name: the filter keeps exactly the listed names that the  *)
(* pattern matches from the first to the last character.                   *)
C16_WholeName ==
    (/\ call.fn = "filter_crates_by_pattern" /\ call.pattern.some
     /\ call.res # "InvalidPattern")
    => \A i \in DOMAIN call.names :
          call.names[i] \in Range(call.kept)
          <=> GlobMatches(call.pattern.s, call.names[i])

(* C16, for the patterns made of letters, `-`, `.`, `*` and `?` only.      *)
C16_WholeNameOfWildcards ==
    (/\ call.fn = "filter_crates_by_pattern"
     /\ Range(call.pattern.s) \subseteq {"a", "-", ".", "*", "?"})
    => C16_WholeName

(* C17: every character of a pattern other than `*` and `?` is matched     *)
(* literally: no pattern is rejected as InvalidPattern and the filter      *)
(* keeps, in order, the names a glob matcher accepts.                      *)
C17_Literal ==
    (call.fn = "filter_crates_by_pattern" /\ call.pattern.some)
    => /\ call.res # "InvalidPattern"
       /\ call.kept = SelectSeq(call.names,
                                LAMBDA n : GlobMatches(call.pattern.s, n))

(* C12: origin inference.  The number of listed crates whose declaration  *)
(* has git = u.                                                            *)
Listed(call_doc, crate_names, u) ==
    Cardinality({i \in DOMAIN crate_names :
        /\ crate_names[i] \in DOMAIN Declared(call_doc)
        /\ Declared(call_doc)[crate_names[i]].shape # "Plain"
        /\ Declared(call_doc)[crate_names[i]].git = u})

(* C12: detect_common_git_url returns u iff the listed crates declaring    *)
(* git = u are strictly more than len(crate_names) / 2 (integer division), *)
(* and none iff no URL has such a count, whatever the iteration order.     *)
C12_MajorityRule ==
    call.fn = "detect_common_git_url"
    => /\ \A u \in {GitU, GitV} :
             call.out = u
             <=> Listed(call.doc, call.crate_names, u) > Len(call.crate_names) \div 2
       /\ call.out = NoUrl
          <=> \A u \in {GitU, GitV} :
                 Listed(call.doc, call.crate_names, u) <= Len(call.crate_names) \div 2

(* C12 case: four crates listed, two from one repository and two from the  *)
(* other: a tie, none is returned.                                         *)
C12_Witness ==
    /\ call.fn = "detect_common_git_url"
    /\ Len(call.crate_names) = 4
    /\ Listed(call.doc, call.crate_names, GitU) = 2
    /\ Listed(call.doc, call.crate_names, GitV) = 2
    /\ call.out = NoUrl

(* C18: update_dependency_version changes nothing when the crate is not   *)
(* in the dependency table; it replaces a plain declaration by the new     *)
(* version string; in an inline table or a table it changes the version    *)
(* field only when there is one and no other field; every other            *)
(* dependency and the rest of the document are unchanged.                  *)
C18_SetVersion ==
    call.fn = "update_dependency_version"
    => /\ DOMAIN Declared(call.out) = DOMAIN Declared(call.doc)
       /\ \A n \in DOMAIN Declared(call.doc) :
             Declared(call.out)[n] =
                IF n # call.crate_name THEN Declared(call.doc)[n]
                ELSE IF Declared(call.doc)[n].shape = "Plain"
                THEN Decl("Plain", call.new_version, NoUrl)
                ELSE IF Declared(call.doc)[n].version = NoVersion
                THEN Declared(call.doc)[n]
                ELSE Decl(Declared(call.doc)[n].shape, call.new_version,
                          Declared(call.doc)[n].git)
       /\ call.crate_name \notin DOMAIN Declared(call.doc) => call.out = call.doc
       /\ Declared(call.out) = Declared(call.doc) => call.out = call.doc
       /\ \E t \in {[has |-> TRUE, tbl |-> Declared(call.out)]} :
             call.out \in {call.doc, [call.doc EXCEPT !.deps = t],
                           [call.doc EXCEPT !.wsDeps = t]}

(* C18 case: the crate is a table with a version and a git field in the    *)
(* workspace dependency table, and is also declared in the top-level one.  *)
C18_Witness ==
    /\ call.fn = "update_dependency_version"
    /\ call.doc.workspace /\ call.doc.wsDeps.has /\ call.doc.deps.has
    /\ call.crate_name \in DOMAIN call.doc.wsDeps.tbl
    /\ call.crate_name \in DOMAIN call.doc.deps.tbl
    /\ call.doc.wsDeps.tbl[call.crate_name] = Decl("Table", "1.1", GitU)
    /\ call.out.wsDeps.tbl[call.crate_name] = Decl("Table", "9.9", GitU)
    /\ call.out.deps = call.doc.deps

(* C19: the dependency table is the workspace-level one when the manifest  *)
(* has a workspace section with a dependency table, otherwise the          *)
(* top-level one, otherwise none; the accessor for reading and the one     *)
(* for updating select the same table, and an update changes the table     *)
(* that is read.                                                           *)
C19_DependencyTable ==
    /\ call.fn = "get_dependencies_table"
       => /\ (call.doc.workspace /\ call.doc.wsDeps.has)
             => call.read = call.doc.wsDeps /\ call.mut = "ws"
          /\ (~(call.doc.workspace /\ call.doc.wsDeps.has) /\ call.doc.deps.has)
             => call.read = call.doc.deps /\ call.mut = "top"
          /\ (~(call.doc.workspace /\ call.doc.wsDeps.has) /\ ~call.doc.deps.has)
             => ~call.read.has /\ call.mut = "none"
    /\ call.fn = "update_dependency_version"
       => (call.out # call.doc
           => get_dependencies_table(call.out) # get_dependencies_table(call.doc))

(* C19 case: a workspace section without a dependency table next to a      *)
(* top-level dependency table, which is the one selected.                  *)
C19_Witness ==
    /\ call.fn = "get_dependencies_table"
    /\ call.doc.workspace /\ ~call.doc.wsDeps.has /\ call.doc.deps.has
    /\ call.doc.deps.tbl # EmptyTable
    /\ call.read = call.doc.deps /\ call.mut = "top"

(* C20: clear removes the namespace key, then the metadata table that held *)
(* it when nothing else is in it, then the table one level up: no table    *)
(* that was created to hold the metadata is left.                          *)
C20_ClearPrunes ==
    call.fn = "clear_metadata"
    => /\ ~call.out.wsMeta.ns.has /\ ~call.out.pkgMeta.ns.has
       /\ call.out.wsMeta.has <=> call.doc.wsMeta.other
       /\ call.out.pkgMeta.has <=> call.doc.pkgMeta.other
       /\ call.out.package => call.base.package
       /\ call.out.workspace = call.base.workspace

(* C20, the part that holds: the namespace key is removed and the metadata *)
(* table with it unless it holds another key.                              *)
C20_ClearPrunesMetadata ==
    call.fn = "clear_metadata"
    => /\ ~call.out.wsMeta.ns.has /\ ~call.out.pkgMeta.ns.has
       /\ call.out.wsMeta.has <=> call.doc.wsMeta.other
       /\ call.out.pkgMeta.has <=> call.doc.pkgMeta.other
       /\ call.base.package => call.out = call.base

(* C21: the managed state is replaced wholesale by every Apply.  After a   *)
(* successful Apply that added patch entries, the keys of                  *)
(* original_versions are exactly the crates of these entries and           *)
(* managed_origins is exactly their key, whatever managed state the        *)
(* manifest held before.                                                   *)
C21_ReplacedWholesale ==
    (ApplyOk(last) /\ Added(before.doc, disk.doc) # {})
    => /\ DOMAIN OriginalVersions(disk.doc) =
             {e[2] : e \in Added(before.doc, disk.doc)}
       /\ ManagedOrigins(disk.doc) = {e[1] : e \in Added(before.doc, disk.doc)}

(* C21, for the manifests whose managed state, when they have one, still   *)
(* has its patch table.                                                    *)
C21_ReplacedUnlessStale ==
    (HasManagedState(before.doc) => before.doc.patch.has) => C21_ReplacedWholesale

(* C22: what a strip leaves of the patch table `tbl` when the managed      *)
(* origins are `origins` and the recorded crates `crates`: `after` has     *)
(* every other origin table as it was, every managed origin table without  *)
(* the recorded crates and with its other entries as they were, and no     *)
(* managed origin table that this left empty.                              *)
Stripped(tbl, after, origins, crates) ==
    /\ DOMAIN after \subseteq DOMAIN tbl
    /\ \A k \in DOMAIN tbl :
          IF k \notin origins
          THEN k \in DOMAIN after /\ after[k] = tbl[k]
          ELSE IF DOMAIN tbl[k] \subseteq crates
          THEN k \notin DOMAIN after
          ELSE /\ k \in DOMAIN after
               /\ after[k] = [n \in DOMAIN tbl[k] \ crates |-> tbl[k][n]]

(* C22: a Remove that succeeds, and the self-clean of an Apply on a        *)
(* manifest with managed state and a patch table, remove from each managed *)
(* origin table exactly the crates recorded in original_versions; a        *)
(* managed origin table is deleted iff that leaves it empty and the patch  *)
(* table iff no origin table is left.                                      *)
C22_StripExactly ==
    /\ (last.op = "remove" /\ last.res = "Ok")
       => /\ Stripped(before.doc.patch.tbl, disk.doc.patch.tbl,
                      ManagedOrigins(before.doc),
                      DOMAIN OriginalVersions(before.doc))
          /\ disk.doc.patch.has <=> DOMAIN disk.doc.patch.tbl # {}
    /\ (/\ last.op = "apply" /\ before.exists /\ before.valid
        /\ ManagedOrigins(before.doc) # {} /\ before.doc.patch.has)
       => /\ Stripped(before.doc.patch.tbl, SelfClean(before.doc).patch.tbl,
                      ManagedOrigins(before.doc),
                      DOMAIN OriginalVersions(before.doc))
          /\ SelfClean(before.doc).patch.has
             <=> DOMAIN SelfClean(before.doc).patch.tbl # {}
          /\ last.res = "Ok"
             => \A e \in Entries(SelfClean(before.doc)) :
                   /\ e \in Entries(disk.doc)
                   /\ PatchEntries(disk.doc)[e] = PatchEntries(before.doc)[e]

(* C22 case: a Remove took the tool's entry out of a managed origin table  *)
(* that keeps a hand-written entry, and deleted another managed origin     *)
(* table or left none.                                                     *)
C22_Witness ==
    /\ last.op = "remove" /\ last.res = "Ok"
    /\ \E k \in ManagedOrigins(before.doc) \cap DOMAIN disk.doc.patch.tbl :
          /\ DOMAIN disk.doc.patch.tbl[k] # {}
          /\ DOMAIN disk.doc.patch.tbl[k] # DOMAIN before.doc.patch.tbl[k]

(* C23: the members of a source workspace that a pattern selects, and the  *)
(* candidates of a local-path Apply that survive: the selected members the *)
(* manifest declares and has no patch entry for once self-clean is done.   *)
Selected(root, pattern) ==
    {m.name : m \in {x \in Range(Workspaces[root].members) :
                        ~pattern.some \/ GlobMatches(pattern.s, x.name)}}

Surviving(root, pattern, doc) ==
    {n \in Selected(root, pattern) \cap DOMAIN Declared(doc) :
        \A e \in Entries(SelfClean(doc)) : e[2] # n}

(* C23: a local-path Apply whose pattern selects source members, none of   *)
(* which survives as a candidate, succeeds; it adds no patch entry, leaves *)
(* every declaration as self-clean left it and writes no managed state:    *)
(* the manifest is the one self-clean left.                                *)
C23_NothingToPatch ==
    (/\ last.op = "apply" /\ last.source.kind = "local"
     /\ before.exists /\ before.valid
     /\ Selected(last.source.root, last.pattern) # {}
     /\ Surviving(last.source.root, last.pattern, before.doc) = {})
    => /\ last.res = "Ok"
       /\ Added(before.doc, disk.doc) = {}
       /\ Declared(disk.doc) = Declared(SelfClean(before.doc))
       /\ OriginalVersions(disk.doc) = OriginalVersions(SelfClean(before.doc))
       /\ ManagedOrigins(disk.doc) = ManagedOrigins(SelfClean(before.doc))
       /\ disk.doc = SelfClean(before.doc)

(* C23 case: every selected member that the manifest declares was skipped  *)
(* for a patch entry it already had, after self-clean removed the state of *)
(* an earlier Apply.                                                       *)
C23_Witness ==
    /\ ApplyOk(last) /\ last.source.kind = "local"
    /\ Surviving(last.source.root, last.pattern, before.doc) = {}
    /\ Selected(last.source.root, last.pattern) \cap DOMAIN Declared(before.doc) # {}
    /\ HasManagedState(before.doc) /\ ~HasManagedState(disk.doc)

(* C24: a local-path Apply on an existing manifest fails with              *)
(* SourceNotFound when the source root has no manifest, with NotAWorkspace *)
(* when the source has a manifest and zero member packages, whatever the   *)
(* pattern, and with NoMatchingCrates carrying the pattern when the source *)
(* has members and the pattern selects none of them; the manifest file is  *)
(* then as it was.  `plain` restricts the last case to the patterns        *)
(* without a character that the regex syntax reads.                        *)
SourceErrors(plain) ==
    (/\ last.op = "apply" /\ last.source.kind = "local"
     /\ before.exists /\ before.valid)
    => LET ws == Workspaces[last.source.root]
       IN  /\ ~ws.manifest
              => last.res = "SourceNotFound" /\ disk = before
           /\ (ws.manifest /\ ws.metadata /\ ws.members = <<>>)
              => last.res = "NotAWorkspace" /\ disk = before
           /\ (/\ ws.manifest /\ ws.metadata /\ ws.members # <<>>
               /\ last.pattern.some
               /\ plain => \A i \in DOMAIN last.pattern.s :
                               last.pattern.s[i] \notin {"[", "|"}
               /\ Selected(last.source.root, last.pattern) = {})
              => /\ last.res = "NoMatchingCrates"
                 /\ last.carried = last.pattern
                 /\ disk = before

C24_SourceErrors == SourceErrors(FALSE)

(* C24, the same for the patterns of letters and wildcards only.           *)
C24_SourceErrorsOfPlainPatterns == SourceErrors(TRUE)

(* C24 case: a pattern that selects no member, on a manifest with managed  *)
(* state that self-clean would have removed.                               *)
C24_Witness ==
    /\ last.op = "apply" /\ last.source = LocalPath("W1")
    /\ last.res = "NoMatchingCrates" /\ last.carried = Pattern(<<"x">>)
    /\ HasManagedState(before.doc) /\ disk = before

(* C25: after an Apply that succeeded, with a local or a git source, every *)
(* crate with a patch entry the Apply added or a record in                 *)
(* original_versions is a key of the manifest's dependency table.          *)
C25_OnlyDeclared ==
    ApplyOk(last)
    => \A n \in {e[2] : e \in Added(before.doc, disk.doc)}
                \cup DOMAIN OriginalVersions(disk.doc) :
          n \in DOMAIN Declared(disk.doc)

(* C25, the same for the manifests whose managed state, when they have     *)
(* one, still has its patch table.                                         *)
C25_OnlyDeclaredUnlessStale ==
    (HasManagedState(before.doc) => before.doc.patch.has) => C25_OnlyDeclared

(* C25 case: a git-flow Apply whose pattern matches a declared crate, on a *)
(* manifest that does not declare every crate.                             *)
C25_Witness ==
    /\ ApplyOk(last) /\ last.source.kind = "git"
    /\ Added(before.doc, disk.doc) # {}
    /\ DOMAIN OriginalVersions(disk.doc) # {}

(* C26: a git-flow Apply that succeeded leaves every dependency            *)
(* declaration as self-clean left it, and original_versions records for    *)
(* each crate it patched the version of that declaration ("" when it has   *)
(* none).                                                                  *)
C26_GitKeepsVersions ==
    (ApplyOk(last) /\ last.source.kind = "git")
    => /\ Declared(disk.doc) = Declared(SelfClean(before.doc))
       /\ \A n \in {e[2] : e \in Added(before.doc, disk.doc)} :
             /\ n \in DOMAIN OriginalVersions(disk.doc)
             /\ OriginalVersions(disk.doc)[n] = RecordedVersion(Declared(disk.doc)[n])

(* C26 case: a git-flow Apply patched a crate with a version after a       *)
(* local-path Apply had changed that version, which self-clean restored.   *)
C26_Witness ==
    /\ ApplyOk(last) /\ last.source.kind = "git" /\ ApplyOk(prev)
    /\ \E e \in Added(before.doc, disk.doc) :
          /\ e[2] \in DOMAIN Declared(before.doc)
          /\ VersionOf(disk.doc, e[2]) # NoVersion
          /\ VersionOf(disk.doc, e[2]) # VersionOf(before.doc, e[2])

(* C27: the candidates of an Apply (the selected source members that the   *)
(* manifest declares, or for a git source the declared crates the pattern  *)
(* matches) and those of them without a patch entry after self-clean.      *)
CandidatesOf(run, doc) ==
    IF run.source.kind = "local"
    THEN Selected(run.source.root, run.pattern) \cap DOMAIN Declared(doc)
    ELSE {n \in DOMAIN Declared(doc) : run.pattern.some /\ GlobMatches(run.pattern.s, n)}

Remaining(run, doc) ==
    {n \in CandidatesOf(run, doc) : \A e \in Entries(SelfClean(doc)) : e[2] # n}

(* The entry and the version an Apply gives a crate it patches.            *)
EntryFor(run, n) ==
    IF run.source.kind = "local" THEN PathEntry(Member(run.source.root, n).dir)
    ELSE GitEntry(run.source.url, run.source.reference)

VersionFor(run, dep, n) ==
    IF run.source.kind = "local" /\ dep.version # NoVersion
    THEN [dep EXCEPT !.version = Member(run.source.root, n).version]
    ELSE dep

(* C27: an Apply of which some candidates are skipped for a patch entry    *)
(* they already have while at least one remains succeeds and patches       *)
(* exactly the remaining ones: each gets one patch entry, the version of   *)
(* the source when the source is local and the crate has a version, and a  *)
(* record of its version in original_versions, which has no other record;  *)
(* the skipped ones keep their declaration.                                *)
C27_Partial ==
    (/\ last.op = "apply" /\ before.exists /\ before.valid
     /\ Remaining(last, before.doc) # {}
     /\ Remaining(last, before.doc) # CandidatesOf(last, before.doc))
    => /\ last.res = "Ok"
       /\ {e[2] : e \in Added(before.doc, disk.doc)} = Remaining(last, before.doc)
       /\ DOMAIN OriginalVersions(disk.doc) = Remaining(last, before.doc)
       /\ \A n \in Remaining(last, before.doc) :
             /\ \E e \in Added(before.doc, disk.doc) :
                   /\ e[2] = n
                   /\ PatchEntries(disk.doc)[e] = EntryFor(last, n)
                   /\ \A f \in Entries(disk.doc) : f[2] = n => f = e
             /\ OriginalVersions(disk.doc)[n] =
                   RecordedVersion(Declared(SelfClean(before.doc))[n])
             /\ Declared(disk.doc)[n] =
                   VersionFor(last, Declared(SelfClean(before.doc))[n], n)
       /\ \A n \in DOMAIN Declared(before.doc) \ Remaining(last, before.doc) :
             Declared(disk.doc)[n] = Declared(SelfClean(before.doc))[n]

(* C27 case: a local-path Apply skipped one declared member and changed    *)
(* the version of another.                                                 *)
C27_Witness ==
    /\ ApplyOk(last) /\ last.source.kind = "local"
    /\ Remaining(last, before.doc) # CandidatesOf(last, before.doc)
    /\ \E n \in Remaining(last, before.doc) :
          VersionOf(disk.doc, n) # VersionOf(before.doc, n)

(* C28: the namespace tables of a manifest on the side of its layout and   *)
(* on the other side.                                                      *)
OwnSide(doc) == IF doc.workspace THEN doc.wsMeta ELSE doc.pkgMeta

OtherSide(doc) == IF doc.workspace THEN doc.pkgMeta ELSE doc.wsMeta

(* C28: an Apply that patched a crate wrote both records under the         *)
(* workspace metadata when the manifest has a workspace section and under  *)
(* the package metadata otherwise, leaving the other side alone, and a     *)
(* load reads them back; the self-clean of the next Apply and the next     *)
(* Remove find that state: the Remove succeeds, and each of the two leaves *)
(* none of the recorded entries and no managed state.                      *)
C28_StateSide ==
    /\ (ApplyOk(last) /\ Added(before.doc, disk.doc) # {})
       => /\ OwnSide(disk.doc).has /\ OwnSide(disk.doc).ns.has
          /\ OwnSide(disk.doc).ns.ovHas /\ OwnSide(disk.doc).ns.mpHas
          /\ {p[1] : p \in Range(OwnSide(disk.doc).ns.ov)} =
                {e[2] : e \in Added(before.doc, disk.doc)}
          /\ {e[1] : e \in Added(before.doc, disk.doc)}
                \subseteq Range(OwnSide(disk.doc).ns.mp)
          /\ OtherSide(disk.doc) = OtherSide(before.doc)
          /\ get_metadata_table(disk.doc) = OwnSide(disk.doc).ns
          /\ DOMAIN get_original_versions(disk.doc) =
                {e[2] : e \in Added(before.doc, disk.doc)}
          /\ Range(get_managed_patches(disk.doc)) = Range(OwnSide(disk.doc).ns.mp)
    /\ (ApplyOk(prev) /\ prev.managed # {} /\ last.op = "remove")
       => /\ last.res = "Ok"
          /\ ~HasManagedState(disk.doc)
          /\ \A e \in Entries(disk.doc) : ~Recorded(before.doc, e)
    /\ (ApplyOk(prev) /\ prev.managed # {} /\ last.op = "apply")
       => /\ ~HasManagedState(SelfClean(before.doc))
          /\ \A e \in Entries(SelfClean(before.doc)) : ~Recorded(before.doc, e)

(* C28 case: the state was written under the workspace metadata of a       *)
(* workspace root and the Remove that followed found it.                   *)
C28_Witness ==
    /\ last.op = "remove" /\ last.res = "Ok" /\ ApplyOk(prev) /\ prev.managed # {}
    /\ before.doc.workspace /\ before.doc.wsMeta.ns.has
    /\ ~before.doc.pkgMeta.has

(* C29: lexicographic order of crate names, byte by byte, a proper prefix  *)
(* first.                                                                  *)
RECURSIVE LexBefore(_, _)
LexBefore(s, t) ==
    IF t = <<>> THEN FALSE
    ELSE IF s = <<>> THEN TRUE
    ELSE IF Head(s) = Head(t) THEN LexBefore(Tail(s), Tail(t))
    ELSE Byte(Head(s)) < Byte(Head(t))

(* The keys of original-versions as a stored document has them.            *)
StoredKeys(doc) == [i \in DOMAIN OwnSide(doc).ns.ov |-> OwnSide(doc).ns.ov[i][1]]

(* C29: whatever order the entries of the mapping come in, the             *)
(* original-versions written has each crate once with its version, the     *)
(* crate names in lexicographic order, and the same mapping coming in      *)
(* another order is written as the same sequence.                          *)
C29_SortedKeys ==
    call.fn = "store_original_versions"
    => /\ Len(StoredKeys(call.doc)) = Len(call.order)
       /\ Range(StoredKeys(call.doc)) = Range(call.order)
       /\ \A i \in DOMAIN StoredKeys(call.doc) :
             OwnSide(call.doc).ns.ov[i][2] = call.versions[StoredKeys(call.doc)[i]]
       /\ \A i \in 1..(Len(StoredKeys(call.doc)) - 1) :
             LexBefore(StoredKeys(call.doc)[i], StoredKeys(call.doc)[i + 1])
       /\ OwnSide(call.again).ns.ov = OwnSide(call.doc).ns.ov
       /\ get_original_versions(call.doc) = call.versions

(* C29 case: three crates, of which a-b and aa, handed out in an order     *)
(* that is not the lexicographic one.                                      *)
C29_Witness ==
    /\ call.fn = "store_original_versions"
    /\ Len(call.order) = 3
    /\ {<<"a", "-", "b">>, <<"a", "a">>} \subseteq Range(call.order)
    /\ StoredKeys(call.doc) # call.order
    /\ StoredKeys(call.doc) # Reversed(call.order)

(* C30: the namespace table of a document that has one, under either       *)
(* metadata.                                                               *)
NamespaceOf(doc) == IF doc.wsMeta.ns.has THEN doc.wsMeta.ns ELSE doc.pkgMeta.ns

(* C30: a load returns the empty mapping and the empty list from a         *)
(* manifest without namespace table; from one whose namespace table lacks  *)
(* a record it returns that record as empty and the other as it is.        *)
C30_LoadDefaults ==
    call.fn = "get_original_versions"
    => /\ call.versions =
             IF NamespaceOf(call.doc).has /\ NamespaceOf(call.doc).ovHas
             THEN [n \in {<<"a">>} |-> "0.9"] ELSE EmptyTable
       /\ call.managed =
             IF NamespaceOf(call.doc).has /\ NamespaceOf(call.doc).mpHas
             THEN <<CratesIo>> ELSE <<>>

(* C30 case: a namespace table with original-versions and without          *)
(* managed-patches, under the package metadata of a manifest that also has *)
(* a workspace section.                                                    *)
C30_Witness ==
    /\ call.fn = "get_original_versions"
    /\ call.doc.workspace /\ call.doc.pkgMeta.ns.has
    /\ call.doc.pkgMeta.ns.ovHas /\ ~call.doc.pkgMeta.ns.mpHas
    /\ call.versions # EmptyTable /\ call.managed = <<>>

(* C31: the managed-patches list a document holds on the side of its       *)
(* layout (empty when it has none), and a list without duplicates.         *)
ManagedList(doc) ==
    IF OwnSide(doc).has /\ OwnSide(doc).ns.has /\ OwnSide(doc).ns.mpHas
    THEN OwnSide(doc).ns.mp ELSE <<>>

NoDuplicate(list) ==
    \A i \in DOMAIN list : \A j \in DOMAIN list : list[i] = list[j] => i = j

(* C31: adding an origin key that the list holds leaves the list as it is, *)
(* adding another key appends it after the keys that are there, and a list *)
(* without duplicates has none afterwards.                                 *)
C31_OrderedSet ==
    call.fn = "add_managed_patch"
    => /\ call.patch_key \in Range(ManagedList(call.doc))
          => ManagedList(call.out) = ManagedList(call.doc)
       /\ call.patch_key \notin Range(ManagedList(call.doc))
          => ManagedList(call.out) = ManagedList(call.doc) \o <<call.patch_key>>
       /\ NoDuplicate(ManagedList(call.doc)) => NoDuplicate(ManagedList(call.out))
       /\ get_managed_patches(call.out) = ManagedList(call.out)

(* C31 case: a key already in the middle of a list of three is added       *)
(* again.                                                                  *)
C31_Witness ==
    /\ call.fn = "add_managed_patch"
    /\ Len(ManagedList(call.doc)) = 3
    /\ ManagedList(call.doc)[2] = call.patch_key
    /\ ManagedList(call.out) = ManagedList(call.doc)

(* C31, on the manifest file: after any sequence of Apply and Remove the   *)
(* list read from the manifest has no duplicate.                           *)
C31_NoDuplicateOnDisk == NoDuplicate(get_managed_patches(disk.doc))

(* C32: the place of a step in the order, and a trail of steps that only   *)
(* moves forward in it.                                                    *)
Rank(step) == CHOOSE i \in DOMAIN StepOrder : StepOrder[i] = step

Forward(trail) ==
    \A i \in DOMAIN trail : \A j \in DOMAIN trail :
        i < j => Rank(trail[i]) < Rank(trail[j])

Ended(c) == c.fn = "apply_patches" /\ c.pc \in {"Returned", "Failed"}

(* The steps run so far are the first steps of the order, one after the    *)
(* other, except that an invocation with nothing to patch goes from        *)
(* Filtering to Done; one that returned ended with Done and Ok, one that   *)
(* failed has an error, has run neither Persist nor Done and left the file *)
(* as it was; and the end is the end of the whole Apply.                   *)
StepsInOrder ==
    call.fn = "apply_patches"
    => /\ Forward(call.trail)
       /\ \/ call.trail = SubSeq(StepOrder, 1, Len(call.trail))
          \/ call.trail = SubSeq(StepOrder, 1, 3) \o <<"Done">>
       /\ call.pc = "Returned"
          => /\ call.res = "Ok" /\ call.trail[Len(call.trail)] = "Done"
             /\ disk = File(call.doc)
       /\ call.pc = "Failed"
          => /\ call.res \notin {"none", "Ok"}
             /\ "Persist" \notin Range(call.trail) /\ "Done" \notin Range(call.trail)
             /\ disk = pristine
       /\ call.pc \notin {"Returned", "Failed"}
          => call.res = "none" /\ disk = pristine
       /\ Ended(call)
          => /\ call.res = apply_patches(pristine, call.source, call.pattern).res
             /\ disk = FileAfter(pristine,
                                 apply_patches(pristine, call.source, call.pattern))

(* No step runs once the invocation has returned or failed, and the file   *)
(* is written by the step Done alone.                                      *)
NothingAfterTheEnd ==
    /\ Ended(call) => UNCHANGED <<call, disk>>
    /\ (call.fn = "apply_patches" /\ call.res # "none") => UNCHANGED <<call, disk>>
    /\ disk' # disk => At("Done") /\ call'.res = "Ok"

(* C32: every Apply invocation runs its steps in the order SelfClean,      *)
(* CandidateSelection, Filtering, OriginSelection, Mutation, Persist,      *)
(* Done; it ends in Done or in an error; after an error no later step      *)
(* runs, neither Persist nor the write of the file.                        *)
C32_StepOrder ==
    /\ []StepsInOrder
    /\ [][NothingAfterTheEnd]_vars
    /\ (call.fn = "apply_patches") ~> Ended(call)

(* C32 case: an invocation that ran all seven steps and returned.          *)
C32_Witness ==
    /\ call.fn = "apply_patches" /\ call.pc = "Returned"
    /\ call.trail = StepOrder

(* The version crate c had before the first Apply of the sequence managed  *)
(* it: the one the manifest declared at the start ("" when it declared     *)
(* none), or, when the manifest started with a record of c left by an      *)
(* earlier run, the recorded version that self-clean puts back.            *)
FirstVersion(c) ==
    LET declared == CurrentDeps(pristine.doc)
        recorded == OriginalVersions(pristine.doc)
    IN  IF c \notin DOMAIN declared THEN ""
        ELSE IF /\ ManagedOrigins(pristine.doc) # {}
                /\ c \in DOMAIN recorded /\ recorded[c] # ""
                /\ declared[c] # ""
        THEN recorded[c]
        ELSE declared[c]

(* C33: across successful Applies with no Remove or outside edit between   *)
(* them, original_versions[c] of every managed crate c is the version c    *)
(* declared before the first Apply that managed it, never a version an     *)
(* earlier Apply wrote.                                                    *)
C33_FirstVersionKept ==
    ApplyOk(last)
    => \A c \in last.managed :
          /\ c \in DOMAIN OriginalVersions(disk.doc)
          /\ OriginalVersions(disk.doc)[c] = FirstVersion(c)

(* C33 case: the second of two successful Applies manages a crate whose    *)
(* version the first had changed.                                          *)
C33_Witness ==
    /\ ApplyOk(last) /\ ApplyOk(prev)
    /\ ~HasManagedState(pristine.doc)
    /\ \E c \in last.managed \cap prev.managed :
          /\ CurrentDeps(before.doc)[c] # CurrentDeps(pristine.doc)[c]
          /\ OriginalVersions(disk.doc)[c] = CurrentDeps(pristine.doc)[c]
          /\ CurrentDeps(disk.doc)[c] # CurrentDeps(before.doc)[c]

(* A local-path Apply whose pattern selects source members none of which   *)
(* survives, on a manifest that holds managed state.                       *)
NothingSurvives ==
    /\ last.op = "apply" /\ last.source.kind = "local"
    /\ before.exists /\ before.valid
    /\ HasManagedState(before.doc)
    /\ Selected(last.source.root, last.pattern) # {}
    /\ Surviving(last.source.root, last.pattern, before.doc) = {}

(* The Apply succeeded and wrote what Remove writes on the same manifest:  *)
(* versions restored, tool entries stripped, managed state cleared.        *)
WroteWhatRemoveWrites ==
    /\ last.res = "Ok" /\ last.wrote
    /\ remove_patches(before).res = "Ok"
    /\ disk = File(remove_patches(before).doc)
    /\ ~HasManagedState(disk.doc)
    /\ Entries(disk.doc) \cap written = {}

(* C34: when the manifest holds managed state and a local-path Apply ends  *)
(* with zero surviving candidates, the Apply succeeds and the manifest it  *)
(* writes equals the one Remove would have written: previous versions      *)
(* restored, previous tool entries stripped, managed state cleared.        *)
C34_SameAsRemove == NothingSurvives => WroteWhatRemoveWrites

(* C34, the same for the manifests whose managed state still has its patch *)
(* table.                                                                  *)
C34_SameAsRemoveUnlessStale ==
    (NothingSurvives /\ before.doc.patch.has) => WroteWhatRemoveWrites

(* C34 case: the state an earlier Apply wrote, with a changed version, is  *)
(* undone by an Apply that finds nothing to patch.                         *)
C34_Witness ==
    /\ NothingSurvives /\ ApplyOk(prev) /\ prev.managed # {}
    /\ Declared(disk.doc) # Declared(before.doc)
    /\ Entries(disk.doc) # Entries(before.doc)

(* The tool-written entries still in the manifest, by origin key.          *)
WrittenUnder(k) == {e \in Entries(disk.doc) \cap written : e[1] = k}

(* C35: on a manifest that started without managed state, managed_origins  *)
(* holds at most one key after any sequence of Apply and Remove; an Apply  *)
(* that chooses another origin key than the Apply before leaves only the   *)
(* new key recorded and no tool-written entry under the old key.           *)
C35_OneOrigin ==
    ~HasManagedState(pristine.doc)
    => /\ Cardinality(ManagedOrigins(disk.doc)) <= 1
       /\ Len(get_managed_patches(disk.doc)) <= 1
       /\ (ApplyOk(last) /\ last.managed # {})
          => /\ ManagedOrigins(disk.doc) = {last.key}
             /\ \A k \in ManagedOrigins(before.doc) \ {last.key} :
                    WrittenUnder(k) = {}
       /\ \A e \in Entries(disk.doc) \cap written : e[1] \in ManagedOrigins(disk.doc)

(* C35 case: the Apply before wrote entries under one key, this Apply      *)
(* chose another.                                                          *)
C35_Witness ==
    /\ ~HasManagedState(pristine.doc)
    /\ ApplyOk(last) /\ last.managed # {} /\ ApplyOk(prev) /\ prev.managed # {}
    /\ ManagedOrigins(before.doc) # {} /\ last.key \notin ManagedOrigins(before.doc)
    /\ \E e \in Entries(before.doc) : e[1] \in ManagedOrigins(before.doc) /\ e[2] \in prev.managed
    /\ ManagedOrigins(disk.doc) = {last.key}

(* C36: original versions stored in a manifest and loaded back from it are *)
(* the mapping that was stored, for every mapping, the entries with the    *)
(* empty version included, in workspace and in package manifests.          *)
C36_StoreThenLoad ==
    call.fn = "store_original_versions"
    => LET loaded == get_original_versions(call.doc)
       IN  /\ DOMAIN loaded = DOMAIN call.versions
           /\ \A n \in DOMAIN call.versions : loaded[n] = call.versions[n]
           /\ get_original_versions(call.again) = loaded
           /\ get_metadata_table(call.doc).has
           /\ is_workspace(call.base) <=> call.doc.wsMeta.ns.ovHas

(* C36 case: a mapping of three crates, one of them with the empty         *)
(* version, stored in a workspace manifest.                                *)
C36_Witness ==
    /\ call.fn = "store_original_versions"
    /\ is_workspace(call.base)
    /\ Len(call.order) = 3 /\ call.versions[call.order[2]] = ""
    /\ get_original_versions(call.doc)[call.order[2]] = ""
    /\ get_original_versions(call.base) = EmptyTable

(* C36 case: the same in a package manifest.                               *)
C36_WitnessPackage ==
    /\ call.fn = "store_original_versions"
    /\ ~is_workspace(call.base)
    /\ Len(call.order) = 3 /\ call.versions[call.order[2]] = ""
    /\ get_original_versions(call.doc)[call.order[2]] = ""

(* The result of an Apply: what it returns, whether it writes, and in the  *)
(* document it ends with the declared versions, the patch entries with     *)
(* their targets, the origin key and the managed state.                    *)
ResultOf(report) ==
    [res |-> report.res, wrote |-> report.wrote, key |-> report.key,
     managed |-> report.managed,
     declared |-> Declared(report.doc),
     entries |-> PatchEntries(report.doc),
     versions |-> OriginalVersions(report.doc),
     origins |-> get_managed_patches(report.doc),
     stored |-> get_metadata_table(report.doc)]

(* C37: the result of Apply is determined by the manifest, the source and  *)
(* the pattern: whatever the order in which recorded versions, candidates  *)
(* (the keys of current_deps) and URL counts are iterated, the result is   *)
(* the one of the Apply with every map iterated in its fixed order.        *)
C37_OrderFree ==
    call.fn = "apply_patches in order"
    => /\ ResultOf(call.out) = ResultOf(apply_patches(disk, call.source, call.pattern))
       /\ call.out.wrote
          => call.out.doc = apply_patches(disk, call.source, call.pattern).doc

(* C37 case: a local-path Apply on a manifest with two recorded versions,  *)
(* restored in the reverse of the fixed order; two candidates with two     *)
(* different git URLs, counted in either order.                            *)
C37_Witness ==
    /\ call.fn = "apply_patches in order" /\ call.source.kind = "local"
    /\ Len(call.o.restored) = 2
    /\ call.o.restored = Reversed(HashIter(get_original_versions(disk.doc)))
    /\ call.o.stored = Reversed(HashIter(CurrentDeps(disk.doc)))
    /\ call.o.urls = <<GitV, GitU>>
    /\ call.out.res = "Ok" /\ Cardinality(call.out.managed) = 2
    /\ Cardinality(DOMAIN get_original_versions(call.out.doc)) = 2
    /\ Cardinality({Declared(disk.doc)[n].git : n \in call.out.managed}) = 2
    /\ NoUrl \notin {Declared(disk.doc)[n].git : n \in call.out.managed}

(* C37 case: a git Apply that patches two crates, the keys of current_deps *)
(* iterated in the reverse of the fixed order.                             *)
C37_WitnessGit ==
    /\ call.fn = "apply_patches in order" /\ call.source.kind = "git"
    /\ call.o.keys = Reversed(HashIter(CurrentDeps(disk.doc)))
    /\ call.out.res = "Ok" /\ Cardinality(call.out.managed) = 2
    /\ HasManagedState(disk.doc)

====
